---- MODULE Spec2Model ----
(***************************************************************************)
(* The streaming core of the CNC controllers: one controller instance with *)
(* its Workflow, Sender and Feeder, the transport it writes to, and the    *)
(* firmware that answers every line-buffered write in order.               *)
(*                                                                         *)
(* The controllers (GrblController in src/unnamed/part_000,                *)
(* MarlinController in src/src/server/controllers/Grbl/                    *)
(* GrblLineParserResultStartup.js) are translated handler by handler.      *)
(* lib/Sender, lib/Feeder and lib/Workflow are imported by the controllers *)
(* but their code is not part of the sources at hand; they are modelled    *)
(* from spec.md sections 3, 4.3, 4.4, 4.5 and from the way the controllers *)
(* call them.  Where section 4.3 gives isPending() as size()>0 && !hold    *)
(* the model follows section 4.6 ("if not busy, kick next()") and the      *)
(* callers (part_000:1712, Marlin `feederIdle = !isPending()`): under the  *)
(* formula of 4.3 the kick of command 'gcode' could never start an idle    *)
(* Feeder.                                                                 *)
(*                                                                         *)
(* Scope: program and feeder lines whose dataFilter output is not empty    *)
(* (no `%name=expr` assignment lines, no comment-only lines).              *)
(*                                                                         *)
(* The ServiceEngine (part_000:1-455) is modelled next to the streaming    *)
(* core: sessions, the registry `controllers`, and controller instances    *)
(* from their constructor to destroy().  Each instance carries its own     *)
(* controller record, on which the handlers of the streaming core run.     *)
(* connection.open() calls back in a later step, with or without an error; *)
(* connection.close() completes within the handler that calls it.          *)
(*                                                                         *)
(* A handler that awaits a delay is two steps, up to the delay and after   *)
(* it: the forced 'sender:stop' of Grbl and the open callback of           *)
(* SmoothieController, which otherwise shares the handlers of Grbl.        *)
(* MarlinRunner's line parsers are rebuilt from the runner's tests.        *)
(***************************************************************************)
EXTENDS Integers, Sequences, FiniteSets, TLC

VARIABLES
    type,        \* controller.type: "Grbl" or "Marlin"
    workflow,    \* workflow.state
    sender,      \* sender.state and sender.sp
    feeder,      \* feeder.state
    actionMask,  \* controller.actionMask
    actionTime,  \* controller.actionTime (abstracted to what the guards read)
    conn,        \* connection.isOpen, controller.ready
    runner,      \* what the runner last parsed: machine state
    state,       \* controller.state: the runner's state the timer last copied
    delayed,     \* forced 'sender:stop' commands waiting in delay(500)
    parsed,      \* Marlin: the line the runner parsed last and the event it emitted
    history,     \* Marlin: history.writeSource and query.type
    wire,        \* line-buffered writes the firmware has not answered yet
    out,         \* what the last handler emitted / wrote to the transport
    credit,      \* who the last firmware reply was credited to
    events,      \* the event names configured with a G-code reaction
    controllers, \* ServiceEngine: the registry, ident -> controller instance
    instances,   \* ServiceEngine: every controller instance ever constructed
    pool,        \* ServiceEngine: engine.sockets, the connected sessions
    inbox        \* what the last handler emitted to each session

evars == << controllers, instances, pool, inbox >>

cvars == << type, workflow, sender, feeder, actionMask, actionTime, conn,
            runner, state, delayed, parsed, history, wire, out, credit, events >>

vars == << cvars, evars >>

----------------------------------------------------------------------------
(* Bounds of the model *)

MaxProg == 2    \* lines of a loaded program, before the appended %wait
MaxFeed == 1    \* lines waiting in the Feeder queue
MaxWire == 3    \* line-buffered writes pending at the firmware

----------------------------------------------------------------------------
(* Lines *)

WAIT == "%wait"
LongLine == "G1 X100.000 Y200.000 Z-10.000 A45.000 B90.000 C180.000 F150"
ShortLine == "G0 X1"

GrblDwell == "G4 P0.5"
MarlinDwell == "G4 P500"

\* Lines a program may hold (after comment stripping).
ProgramLines == { LongLine, "M0", "M1", "M6", WAIT }
\* Lines a `gcode` command may feed.
FeederLines == { ShortLine, "M0", "M6" }

RealtimeCommands == { "?", "!", "~", "^X" }

WORKFLOW_STATE_IDLE == "idle"
WORKFLOW_STATE_RUNNING == "running"
WORKFLOW_STATE_PAUSED == "paused"

NoReason == "none"

RECURSIVE SeqsUpTo(_, _)
SeqsUpTo(S, n) ==
    IF n = 0 THEN { << >> }
    ELSE LET shorter == SeqsUpTo(S, n - 1)
         IN shorter \cup { Append(q, x) : q \in shorter, x \in S }

RECURSIVE SumBytes(_)
SumBytes(q) == IF q = << >> THEN 0 ELSE Len(Head(q).text) + 1 + SumBytes(Tail(q))

----------------------------------------------------------------------------
(* The controller as one record, so that a handler is a composition of the *)
(* calls it makes.                                                         *)

Ctl == [ type |-> type, wf |-> workflow, s |-> sender, f |-> feeder,
         mask |-> actionMask, at |-> actionTime, conn |-> conn,
         runner |-> runner, state |-> state, delayed |-> delayed,
         parsed |-> parsed,
         hist |-> history, wire |-> wire, out |-> << >>,
         events |-> events ]

Commit(c) ==
    /\ type' = c.type
    /\ workflow' = c.wf
    /\ sender' = c.s
    /\ feeder' = c.f
    /\ actionMask' = c.mask
    /\ actionTime' = c.at
    /\ conn' = c.conn
    /\ runner' = c.runner
    /\ state' = c.state
    /\ delayed' = c.delayed
    /\ parsed' = c.parsed
    /\ history' = c.hist
    /\ wire' = c.wire
    /\ out' = c.out
    /\ events' = c.events
    /\ UNCHANGED evars

NoCredit == [ to |-> "none", src |-> "none" ]

----------------------------------------------------------------------------
(* Transport *)

\* connection.write(data): the bytes go to the firmware; a line stays in its
\* input buffer until it is answered, a realtime byte does not.  Marlin's
\* writeFilter records the source of every write.
ConnectionWrite(c, src, text) ==
    LET w == [ ev |-> "write", src |-> src, text |-> text, wf |-> c.wf,
               unacked |-> c.s.sent - c.s.received,
               bytes |-> c.s.sp.dataLength ]
        c1 == [ c EXCEPT !.out = Append(@, w) ]
        c2 == IF text \in RealtimeCommands THEN c1
              ELSE [ c1 EXCEPT !.wire = Append(@, [ src |-> src, text |-> text, ps |-> FALSE ]) ]
    IN IF c.type = "Marlin"
       THEN [ c2 EXCEPT !.hist.writeSource = src ]
       ELSE c2

\* An event a component emits; the handler decides whether anything is written.
Emitted(c, src, text) ==
    [ c EXCEPT !.out = Append(@, [ ev |-> "data", src |-> src, text |-> text,
                                   wf |-> c.wf, unacked |-> c.s.sent - c.s.received,
                                   bytes |-> c.s.sp.dataLength ]) ]


----------------------------------------------------------------------------
(* lib/Sender: hold, unhold, rewind, ack *)

SP_TYPE_SEND_RESPONSE == "send-response"
SP_TYPE_CHAR_COUNTING == "char-counting"

SenderHold(c, reason) ==
    [ c EXCEPT !.s.hold = TRUE, !.s.holdReason = reason ]

SenderUnhold(c) ==
    [ c EXCEPT !.s.hold = FALSE, !.s.holdReason = NoReason ]

\* rewind(): the counters, the outstanding bytes and the hold are reset for a
\* fresh start.
SenderRewind(c) ==
    [ c EXCEPT !.s.sent = 0, !.s.received = 0, !.s.hold = FALSE,
               !.s.holdReason = NoReason, !.s.sp.dataLength = 0 ]

\* The text the Sender's dataFilter returns for a program line.
GrblFilterText(line) ==
    IF line = WAIT THEN GrblDwell
    ELSE IF line = "M6" THEN "(M6)"
    ELSE line

MarlinFilterText(line) ==
    IF line = WAIT THEN MarlinDwell ELSE line

FilterText(c, line) ==
    IF c.type = "Marlin" THEN MarlinFilterText(line) ELSE GrblFilterText(line)

\* An ack() that counts a reply even when nothing is outstanding.
SenderAckUnguarded(c) ==
    [ c EXCEPT !.s.received = @ + 1,
               !.s.sp.dataLength =
                   IF c.s.sp.type = SP_TYPE_CHAR_COUNTING /\ c.s.received < c.s.sent
                   THEN @ - (Len(FilterText(c, c.s.lines[c.s.received + 1])) + 1)
                   ELSE @ ]

\* ack(): credits one outstanding line; the bytes that line occupied (its
\* transmitted text and the LF) leave the outstanding-byte counter.  An ack
\* with nothing outstanding changes nothing.
SenderAck(c) ==
    IF c.s.received < c.s.sent
    THEN [ c EXCEPT !.s.received = @ + 1,
                    !.s.sp.dataLength =
                        IF c.s.sp.type = SP_TYPE_CHAR_COUNTING
                        THEN @ - (Len(FilterText(c, c.s.lines[c.s.received + 1])) + 1)
                        ELSE @ ]
    ELSE c

----------------------------------------------------------------------------
(* lib/Workflow and the controller's workflow listeners *)

\* workflow.on('start')
OnWorkflowStart(c) == SenderRewind(c)

\* A stop listener that leaves the Sender as it is.
KeepSender(c) == c

\* workflow.on('stop')
OnWorkflowStop(c) == SenderRewind(c)

\* workflow.on('pause')
OnWorkflowPause(c, reason) == SenderHold(c, reason)

\* A start() that also leaves Paused.
WorkflowStartUnlessRunning(c) ==
    IF c.wf # WORKFLOW_STATE_RUNNING
    THEN OnWorkflowStart([ c EXCEPT !.wf = WORKFLOW_STATE_RUNNING ])
    ELSE c

\* start(): Idle -> Running
WorkflowStart(c) ==
    IF c.wf = WORKFLOW_STATE_IDLE
    THEN OnWorkflowStart([ c EXCEPT !.wf = WORKFLOW_STATE_RUNNING ])
    ELSE c

\* stop(): any -> Idle
WorkflowStop(c) ==
    IF c.wf # WORKFLOW_STATE_IDLE
    THEN OnWorkflowStop([ c EXCEPT !.wf = WORKFLOW_STATE_IDLE ])
    ELSE c

\* pause(): Running -> Paused
WorkflowPause(c, reason) ==
    IF c.wf = WORKFLOW_STATE_RUNNING
    THEN OnWorkflowPause([ c EXCEPT !.wf = WORKFLOW_STATE_PAUSED ], reason)
    ELSE c

----------------------------------------------------------------------------
(* The Sender's dataFilter, data listener and next() *)

\* A dataFilter of the Sender that lets M0, M1 and M6 pass without pausing.
GrblSenderDataFilterNoPause(c, line) ==
    IF line = WAIT
    THEN [ c |-> SenderHold(c, WAIT), text |-> GrblDwell ]
    ELSE [ c |-> c, text |-> GrblFilterText(line) ]

\* Grbl dataFilter of the Sender: %wait holds the Sender and becomes a dwell;
\* M0, M1 and M6 pause the Workflow; M6 is put in parentheses.
GrblSenderDataFilter(c, line) ==
    IF line = WAIT
    THEN [ c |-> SenderHold(c, WAIT), text |-> GrblDwell ]
    ELSE LET c1 == IF line = "M0" THEN WorkflowPause(c, "M0")
                   ELSE IF line = "M1" THEN WorkflowPause(c, "M1")
                   ELSE c
             c2 == IF line = "M6" THEN WorkflowPause(c1, "M6") ELSE c1
         IN [ c |-> c2, text |-> GrblFilterText(line) ]

\* Marlin dataFilter of the Sender: the dwell is G4 P500 and M6 is left as is.
MarlinSenderDataFilter(c, line) ==
    IF line = WAIT
    THEN [ c |-> SenderHold(c, WAIT), text |-> MarlinDwell ]
    ELSE LET c1 == IF line = "M0" THEN WorkflowPause(c, "M0")
                   ELSE IF line = "M1" THEN WorkflowPause(c, "M1")
                   ELSE c
             c2 == IF line = "M6" THEN WorkflowPause(c1, "M6") ELSE c1
         IN [ c |-> c2, text |-> MarlinFilterText(line) ]

SenderDataFilter(c, line) ==
    IF c.type = "Marlin" THEN MarlinSenderDataFilter(c, line)
    ELSE GrblSenderDataFilter(c, line)

\* sender.on('data'): nothing is written on a closed connection or while the
\* Workflow is Idle.
SenderOnData(c, text) ==
    IF ~c.conn.isOpen THEN c
    ELSE IF c.wf = WORKFLOW_STATE_IDLE THEN c
    ELSE ConnectionWrite(c, "sender", text)

\* sender.on('start') / sender.on('end')
OnSenderStart(c) == [ c EXCEPT !.at.senderFinishTime = 0 ]
OnSenderEnd(c) == [ c EXCEPT !.at.senderFinishTime = 1 ]

\* Character counting: lines are sent while the Sender is not held and the
\* next line fits: dataLength + len(line) + 1 <= bufferSize.
RECURSIVE SPCharCounting(_)
SPCharCounting(c) ==
    IF c.s.hold \/ c.s.sent >= Len(c.s.lines) THEN c
    ELSE LET f == SenderDataFilter(c, c.s.lines[c.s.sent + 1])
             n == Len(f.text) + 1
         IN IF c.s.sp.dataLength + n > c.s.sp.bufferSize THEN c
            ELSE SPCharCounting(
                     SenderOnData(
                         Emitted([ f.c EXCEPT !.s.sent = @ + 1,
                                              !.s.sp.dataLength = @ + n ],
                                 "sender", f.text),
                         f.text))

\* Send-response: one call sends one line.
SPSendResponse(c) ==
    IF c.s.hold \/ c.s.sent >= Len(c.s.lines) THEN c
    ELSE LET f == SenderDataFilter(c, c.s.lines[c.s.sent + 1])
         IN SenderOnData(Emitted([ f.c EXCEPT !.s.sent = @ + 1 ], "sender", f.text),
                         f.text)

\* next(): emits `start` on the first line of a run and `end` once
\* received == sent == lines.length.
SenderNext(c) ==
    IF c.s.lines = << >> THEN c
    ELSE LET c1 == IF c.s.sent = 0
                   THEN OnSenderStart([ c EXCEPT !.s.finishTime = 0 ])
                   ELSE c
             c2 == IF c1.s.sp.type = SP_TYPE_CHAR_COUNTING
                   THEN SPCharCounting(c1)
                   ELSE SPSendResponse(c1)
         IN IF c2.s.received >= Len(c2.s.lines) /\ c2.s.finishTime = 0
            THEN OnSenderEnd([ c2 EXCEPT !.s.finishTime = 1 ])
            ELSE c2

\* The lines of a text that are not empty.
NonEmptyLines(content) == SelectSeq(content, LAMBDA line : line # "")

\* load(): the text is kept as state.content, its non-empty lines replace
\* the previous program and the counters restart.
SenderLoad(c, content) ==
    [ c EXCEPT !.s.content = content,
               !.s.lines = NonEmptyLines(content), !.s.sent = 0, !.s.received = 0,
               !.s.hold = FALSE, !.s.holdReason = NoReason,
               !.s.sp.dataLength = 0, !.s.finishTime = 0 ]

SenderUnload(c) == SenderLoad(c, << >>)

----------------------------------------------------------------------------
(* lib/Feeder and the controller's feeder listeners *)

FeederFeed(c, data) == [ c EXCEPT !.f.queue = @ \o data ]

FeederHold(c, reason) == [ c EXCEPT !.f.hold = TRUE, !.f.holdReason = reason ]

FeederUnhold(c) == [ c EXCEPT !.f.hold = FALSE, !.f.holdReason = NoReason ]

FeederReset(c) ==
    [ c EXCEPT !.f.hold = FALSE, !.f.holdReason = NoReason,
               !.f.queue = << >>, !.f.pending = FALSE ]

FeederIsPending(c) == c.f.pending

\* A dataFilter of the Feeder that lets M0, M1 and M6 pass without a hold.
GrblFeederDataFilterNoHold(c, line) ==
    [ c |-> c, text |-> GrblFilterText(line) ]

\* Grbl dataFilter of the Feeder: %wait becomes a dwell (no hold); M0, M1 and
\* M6 hold the Feeder; M6 is put in parentheses.
GrblFeederDataFilter(c, line) ==
    IF line = WAIT
    THEN [ c |-> c, text |-> GrblDwell ]
    ELSE LET c1 == IF line = "M0" THEN FeederHold(c, "M0")
                   ELSE IF line = "M1" THEN FeederHold(c, "M1")
                   ELSE c
             c2 == IF line = "M6" THEN FeederHold(c1, "M6") ELSE c1
         IN [ c |-> c2, text |-> GrblFilterText(line) ]

MarlinFeederDataFilter(c, line) ==
    IF line = WAIT
    THEN [ c |-> c, text |-> MarlinDwell ]
    ELSE LET c1 == IF line = "M0" THEN FeederHold(c, "M0")
                   ELSE IF line = "M1" THEN FeederHold(c, "M1")
                   ELSE c
             c2 == IF line = "M6" THEN FeederHold(c1, "M6") ELSE c1
         IN [ c |-> c2, text |-> MarlinFilterText(line) ]

FeederDataFilter(c, line) ==
    IF c.type = "Marlin" THEN MarlinFeederDataFilter(c, line)
    ELSE GrblFeederDataFilter(c, line)

\* feeder.on('data'): nothing is written on a closed connection; in Alarm the
\* Feeder is reset instead.
FeederOnData(c, text) ==
    IF ~c.conn.isOpen THEN c
    ELSE IF c.runner.machineState = "Alarm" THEN FeederReset(c)
    ELSE ConnectionWrite(c, "feeder", text)

\* next(): emits the head of the queue unless the Feeder is held; the Feeder
\* is busy (pending) from then until a poll finds the queue empty.
FeederNext(c) ==
    IF ~c.f.hold /\ c.f.queue # << >>
    THEN LET f == FeederDataFilter([ c EXCEPT !.f.queue = Tail(@) ], Head(c.f.queue))
         IN FeederOnData(Emitted([ f.c EXCEPT !.f.pending = TRUE ], "feeder", f.text),
                         f.text)
    ELSE IF c.f.queue = << >> THEN [ c EXCEPT !.f.pending = FALSE ]
    ELSE c

\* workflow.on('resume')
OnWorkflowResume(c) == SenderNext(SenderUnhold(FeederReset(c)))

WorkflowResume(c) ==
    IF c.wf = WORKFLOW_STATE_PAUSED
    THEN OnWorkflowResume([ c EXCEPT !.wf = WORKFLOW_STATE_RUNNING ])
    ELSE c

----------------------------------------------------------------------------
(* GrblController: runner listeners *)

TickInterval == 250
FinishTolerance == 500
\* Largest value kept for actionTime.senderFinishTime, counted in ticks.
FinishTicks == (FinishTolerance \div TickInterval) + 1

RunnerIsIdle(c) == c.runner.machineState = "Idle"

\* clearActionValues()
ClearActionValues(c) ==
    [ c EXCEPT !.mask = [ queryParserState |-> [ state |-> FALSE, reply |-> FALSE ],
                          queryStatusReport |-> FALSE,
                          replyParserState |-> FALSE,
                          replyStatusReport |-> FALSE ],
               !.at = [ queryParserState |-> 0, queryStatusReport |-> 0,
                        senderFinishTime |-> 0 ] ]

\* A status handler that takes the reported size whatever the Workflow and
\* the outstanding bytes are.
GrblOnStatusAnyTime(c, rx) ==
    LET c1 == [ c EXCEPT !.mask.queryStatusReport = FALSE,
                         !.mask.replyStatusReport = FALSE ]
    IN IF rx > 0 /\ c1.s.sp.type = SP_TYPE_CHAR_COUNTING
       THEN [ c1 EXCEPT !.s.sp.bufferSize = rx - 8 ]
       ELSE c1

\* A status echo that does not look at replyStatusReport.
StatusEchoAlways(c, asked) ==
    Emitted([ c EXCEPT !.mask.replyStatusReport = FALSE ],
            "runner", "connection:read")

\* The echo of a status report: asked is what decides whether the report
\* goes to the subscribers as connection:read.
StatusEcho(c, asked) ==
    IF asked
    THEN Emitted([ c EXCEPT !.mask.replyStatusReport = FALSE ],
                 "runner", "connection:read")
    ELSE c

\* A status handler that takes the reported size also when it is smaller.
GrblOnStatusShrinking(c, rx) ==
    LET c0 == [ c EXCEPT !.mask.queryStatusReport = FALSE ]
        c1 == StatusEcho(c0, c0.mask.replyStatusReport)
    IN IF rx > 0
          /\ c1.wf = WORKFLOW_STATE_IDLE
          /\ c1.s.sp.type = SP_TYPE_CHAR_COUNTING
          /\ c1.s.sp.dataLength = 0
       THEN [ c1 EXCEPT !.s.sp.bufferSize = rx - 8 ]
       ELSE c1

\* runner.on('status')
GrblOnStatus(c, rx) ==
    LET c0 == [ c EXCEPT !.mask.queryStatusReport = FALSE ]
        c1 == StatusEcho(c0, c0.mask.replyStatusReport)
        bufferSize == rx - 8
    IN IF rx > 0
          /\ c1.wf = WORKFLOW_STATE_IDLE
          /\ c1.s.sp.type = SP_TYPE_CHAR_COUNTING
          /\ c1.s.sp.dataLength = 0
          /\ bufferSize > c1.s.sp.bufferSize
       THEN [ c1 EXCEPT !.s.sp.bufferSize = bufferSize ]
       ELSE c1

\* An ok handler that does not credit the Sender while the Workflow is
\* Paused.
GrblOnOkPausedNoAck(c) ==
    IF c.mask.queryParserState.reply
    THEN [ c EXCEPT !.mask.replyParserState = FALSE,
                    !.mask.queryParserState.reply = FALSE ]
    ELSE IF c.wf = WORKFLOW_STATE_RUNNING
    THEN SenderNext(SenderAck(
             IF c.s.hold /\ (c.s.received + 1 >= c.s.sent) THEN SenderUnhold(c) ELSE c))
    ELSE IF c.wf = WORKFLOW_STATE_PAUSED /\ c.s.received < c.s.sent
    THEN SenderNext(c)
    ELSE FeederNext(c)

\* runner.on('ok')
GrblOnOk(c) ==
    IF c.mask.queryParserState.reply
    THEN [ c EXCEPT !.mask.replyParserState = FALSE,
                    !.mask.queryParserState.reply = FALSE ]
    ELSE IF c.wf = WORKFLOW_STATE_RUNNING
    THEN SenderNext(SenderAck(
             IF c.s.hold /\ (c.s.received + 1 >= c.s.sent) THEN SenderUnhold(c) ELSE c))
    ELSE IF c.wf = WORKFLOW_STATE_PAUSED /\ c.s.received < c.s.sent
    THEN SenderNext(SenderAck(c))
    ELSE FeederNext(c)

\* runner.on('error')
\* An error handler that pauses the Workflow whatever ignoreErrors says.
GrblOnErrorAlwaysPausing(c, ignoreErrors) ==
    IF c.wf = WORKFLOW_STATE_RUNNING
    THEN SenderNext(SenderAck(WorkflowPause(c, "err")))
    ELSE FeederNext(c)

GrblOnError(c, ignoreErrors) ==
    IF c.wf = WORKFLOW_STATE_RUNNING
    THEN SenderNext(SenderAck(
             IF ~ignoreErrors THEN WorkflowPause(c, "err") ELSE c))
    ELSE FeederNext(c)

\* runner.on('parserstate')
GrblOnParserState(c) ==
    [ c EXCEPT !.mask.queryParserState.state = FALSE,
               !.mask.queryParserState.reply = TRUE ]

\* write(data, context)
GrblWrite(c, data) ==
    IF ~c.conn.isOpen THEN c
    ELSE ConnectionWrite(
             [ c EXCEPT !.mask.replyStatusReport = (data = "?") \/ @,
                        !.mask.replyParserState = (data = "$G") \/ @ ],
             "client", data)

\* writeln(data, context): the LF is implicit in a line-buffered write.
GrblWriteln(c, data) == GrblWrite(c, data)

\* initController()
GrblInitController(c) == GrblWriteln(c, "$$")

\* runner.on('startup')
GrblOnStartup(c) ==
    LET c1 == [ ClearActionValues(c) EXCEPT !.conn.ready = TRUE ]
    IN IF ~c1.conn.initialized
       THEN GrblInitController([ c1 EXCEPT !.conn.initialized = TRUE ])
       ELSE c1

----------------------------------------------------------------------------
(* Command 'gcode' and the event trigger *)

\* The lines of the commands whose trimmed text is not empty.
BlankLines == { "", " " }
NonBlankLines(commands) == SelectSeq(commands, LAMBDA line : line \notin BlankLines)

\* command 'gcode'
GrblGcode(c, commands) ==
    LET c1 == FeederFeed(c, NonBlankLines(commands))
    IN IF ~FeederIsPending(c1) THEN FeederNext(c1) ELSE c1

\* command 'gcode'
MarlinGcode(c, commands) ==
    LET c1 == FeederFeed(c, NonBlankLines(commands))
        notBusy == c1.hist.writeSource = "none"
        senderIdle == c1.s.sent = c1.s.received
        feederIdle == ~FeederIsPending(c1)
    IN IF notBusy /\ senderIdle /\ feederIdle THEN FeederNext(c1) ELSE c1

\* The G-code lines of a configured reaction.
ReactionLines == << ShortLine >>

\* this.event.trigger(name): a configured reaction runs command 'gcode' with
\* its lines (the callback given to the EventTrigger constructor).
EventTrigger(c, name) ==
    LET c1 == Emitted(c, "event", name)
    IN IF name \notin c.events THEN c1
       ELSE IF c.type = "Marlin" THEN MarlinGcode(c1, ReactionLines)
       ELSE GrblGcode(c1, ReactionLines)

----------------------------------------------------------------------------
(* GrblController: commands *)

\* A 'sender:load' that does not append the %wait line.
GrblSenderLoadNoWait(c, content) ==
    WorkflowStop(EventTrigger(SenderLoad(c, content), "sender:load"))

\* command 'sender:load': the program gets the %wait line appended.
GrblSenderLoad(c, content) ==
    WorkflowStop(EventTrigger(SenderLoad(c, content \o << WAIT >>), "sender:load"))

\* command 'sender:unload'
GrblSenderUnload(c) == EventTrigger(SenderUnload(WorkflowStop(c)), "sender:unload")

\* A 'sender:start' that calls sender.next() without starting the Workflow.
GrblSenderStartNoWorkflow(c) ==
    SenderNext(FeederReset(EventTrigger(c, "sender:start")))

\* The limits of the override percentage.
OverrideMin == 10
SmoothieOverrideMax == 200
MarlinOverrideMax == 500

\* An override that is not clamped from below.
OverrideNoFloor(previous, value, max) ==
    IF value = 0 THEN 100
    ELSE IF previous + value > max THEN max
    ELSE previous + value

\* The new override percentage of 'override:feed' and 'override:spindle'.
Override(previous, value, max) ==
    IF value = 0 THEN 100
    ELSE IF previous + value > max THEN max
    ELSE IF previous + value < 10 THEN 10
    ELSE previous + value

\* command 'override:feed' of the Smoothie controller
SmoothieOverrideFeed(c, value) ==
    LET feedOverride == Override(c.runner.ovF, value, 200)
        c1 == GrblGcode(c, << "M220S" \o ToString(feedOverride) >>)
    IN [ c1 EXCEPT !.runner.ovF = feedOverride ]

\* command 'override:spindle' of the Smoothie controller
SmoothieOverrideSpindle(c, value) ==
    LET spindleOverride == Override(c.runner.ovS, value, 200)
        c1 == GrblGcode(c, << "M221S" \o ToString(spindleOverride) >>)
    IN [ c1 EXCEPT !.runner.ovS = spindleOverride ]

\* command 'override:feed' of the Marlin controller
MarlinOverrideFeed(c, value) ==
    LET feedOverride == Override(c.runner.ovF, value, 500)
        c1 == MarlinGcode(c, << "M220S" \o ToString(feedOverride) >>)
    IN [ c1 EXCEPT !.runner.ovF = feedOverride ]

\* command 'override:spindle' of the Marlin controller
MarlinOverrideSpindle(c, value) ==
    LET spindleOverride == Override(c.runner.ovS, value, 500)
        c1 == MarlinGcode(c, << "M221S" \o ToString(spindleOverride) >>)
    IN [ c1 EXCEPT !.runner.ovS = spindleOverride ]

\* command 'sender:start'
GrblSenderStart(c) ==
    SenderNext(FeederReset(WorkflowStart(EventTrigger(c, "sender:start"))))

\* A 'sender:stop' that runs the G-code reaction whatever is configured.
GrblSenderStopReacting(c) ==
    WorkflowStop(GrblGcode(Emitted(c, "event", "sender:stop"), ReactionLines))

\* command 'sender:stop' (without force)
GrblSenderStop(c) == WorkflowStop(EventTrigger(c, "sender:stop"))

\* A forced stop that holds the machine whatever its state.
GrblSenderStopHolding(c, force) ==
    LET c1 == GrblSenderStop(c)
    IN IF ~force THEN c1
       ELSE [ GrblWrite(c1, "!") EXCEPT !.delayed = @ + 1 ]

\* command 'sender:stop' with its options, up to `await delay(500)`
GrblSenderStopWith(c, force) ==
    LET c1 == GrblSenderStop(c)
    IN IF ~force THEN c1
       ELSE [ (IF c1.state.machineState = "Run" THEN GrblWrite(c1, "!") ELSE c1)
                EXCEPT !.delayed = @ + 1 ]

\* command 'sender:stop' with force, after `await delay(500)`
GrblSenderStopDelayed(c) ==
    LET c1 == [ c EXCEPT !.delayed = @ - 1 ]
    IN IF c1.state.machineState = "Hold" THEN GrblWrite(c1, "^X") ELSE c1

\* command 'sender:pause'
GrblSenderPause(c) ==
    GrblWrite(WorkflowPause(EventTrigger(c, "sender:pause"), NoReason), "!")

\* command 'sender:resume'
GrblSenderResume(c) ==
    WorkflowResume(GrblWrite(EventTrigger(c, "sender:resume"), "~"))

\* command 'feeder:start'
GrblFeederStart(c) ==
    IF c.wf = WORKFLOW_STATE_RUNNING THEN c
    ELSE FeederNext(FeederUnhold(GrblWrite(c, "~")))

\* command 'feeder:stop'
GrblFeederStop(c) == FeederReset(c)

\* command(cmd): the handler table; an unknown name is logged and dropped.
GrblCommand(c, cmd) ==
    CASE cmd = "sender:start" -> GrblSenderStart(c)
      [] cmd = "sender:stop" -> GrblSenderStop(c)
      [] cmd = "sender:pause" -> GrblSenderPause(c)
      [] cmd = "sender:resume" -> GrblSenderResume(c)
      [] cmd = "feeder:start" -> GrblFeederStart(c)
      [] cmd = "feeder:stop" -> GrblFeederStop(c)
      [] OTHER -> c

----------------------------------------------------------------------------
(* GrblController: the 250 ms timer *)

\* A queryStatusReport() that does not mark the `?` it writes.
GrblQueryStatusReportUnmarked(c, tolerance) ==
    IF ~c.conn.ready THEN c
    ELSE IF c.conn.isOpen
    THEN ConnectionWrite([ c EXCEPT !.mask.queryStatusReport = FALSE,
                                    !.at.queryStatusReport = 1 ],
                         "server", "?")
    ELSE c

\* queryStatusReport(); tolerance: 5 s have passed since the last `?`.
GrblQueryStatusReport(c, tolerance) ==
    IF ~c.conn.ready THEN c
    ELSE LET c1 == IF c.at.queryStatusReport > 0 /\ tolerance
                   THEN [ c EXCEPT !.mask.queryStatusReport = FALSE ]
                   ELSE c
         IN IF c1.mask.queryStatusReport THEN c1
            ELSE IF c1.conn.isOpen
            THEN ConnectionWrite([ c1 EXCEPT !.mask.queryStatusReport = TRUE,
                                             !.at.queryStatusReport = 1 ],
                                 "server", "?")
            ELSE c1

\* queryParserState(), the throttled body; tolerance: 10 s have passed since
\* the last `$G`.
GrblQueryParserState(c, tolerance) ==
    IF ~c.conn.ready THEN c
    ELSE LET c1 == IF c.wf = WORKFLOW_STATE_IDLE /\ RunnerIsIdle(c)
                      /\ c.at.queryParserState > 0 /\ tolerance
                   THEN [ c EXCEPT !.mask.queryParserState.state = FALSE,
                                   !.mask.queryParserState.reply = FALSE ]
                   ELSE c
         IN IF c1.mask.queryParserState.state \/ c1.mask.queryParserState.reply THEN c1
            ELSE IF c1.conn.isOpen
            THEN ConnectionWrite([ c1 EXCEPT !.mask.queryParserState.state = TRUE,
                                             !.mask.queryParserState.reply = FALSE,
                                             !.at.queryParserState = 1 ],
                                 "server", "$G")
            ELSE c1

\* actionTime.senderFinishTime is kept as the number of the next tick since
\* it was set: at tick n the timespan lies in ((n-1)*250, n*250] ms.  When a
\* tick leaves it alone, one more interval has passed.
TimePasses(c) ==
    IF c.at.senderFinishTime > 0 /\ c.at.senderFinishTime < FinishTicks
    THEN [ c EXCEPT !.at.senderFinishTime = @ + 1 ]
    ELSE c

\* The finish detector at the end of the timer callback.
GrblFinishDetector(c, zeroOffset) ==
    IF c.at.senderFinishTime > 0
    THEN LET machineIdle == zeroOffset /\ RunnerIsIdle(c)
         IN IF ~machineIdle
            THEN [ c EXCEPT !.at.senderFinishTime = 1 ]
            ELSE IF c.at.senderFinishTime * TickInterval > FinishTolerance
            THEN GrblSenderStop([ c EXCEPT !.at.senderFinishTime = 0 ])
            ELSE TimePasses(c)
    ELSE c

\* setInterval callback; throttled: the throttle lets queryParserState run.
GrblQueryTimer(c, tolS, tolP, throttled, zeroOffset) ==
    IF ~c.conn.isOpen THEN TimePasses(c)
    ELSE LET c0 == [ c EXCEPT !.state = c.runner ]
         IN IF ~c0.conn.ready THEN TimePasses(c0)
            ELSE LET c1 == GrblQueryStatusReport(c0, tolS)
                     c2 == IF throttled THEN GrblQueryParserState(c1, tolP) ELSE c1
                 IN GrblFinishDetector(c2, zeroOffset)

\* open(): the transport opens; the Workflow is stopped, the action values
\* are cleared and a loaded program is unloaded.
GrblOpen(c) ==
    IF c.conn.isOpen THEN c
    ELSE LET c1 == ClearActionValues(WorkflowStop([ c EXCEPT !.conn.isOpen = TRUE ]))
         IN IF c1.s.lines # << >> THEN GrblSenderUnload(c1) ELSE c1

----------------------------------------------------------------------------
(* MarlinRunner: the line parsers *)

\* A line of the firmware is the sequence of its fields, as the parsers
\* tell them apart: what it begins with, its reports, its W: field.
Undefined == "undefined"
NoEvent == [ line |-> << >>, type |-> "none", raw |-> << >>, ok |-> FALSE,
            wait |-> Undefined ]

\* The value that follows the first field `name` of the line, if any.
FieldOf(line, name) ==
    IF \E k \in 1..(Len(line) - 1) : line[k] = name
    THEN line[(CHOOSE k \in 1..(Len(line) - 1) :
                  /\ line[k] = name
                  /\ \A j \in 1..(k - 1) : line[j] # name) + 1]
    ELSE Undefined

\* The line reports a temperature: it has a T: field, at its start or after
\* a leading ok.
IsTemperature(line) ==
    /\ Len(line) >= 2
    /\ line[2] = "T:"
    /\ line[1] \in { "ok", "" }

\* A parser that takes every line that begins with ok for an ok.
MarlinParseOkFirst(line) ==
    LET name == IF line # << >> /\ Head(line) = "ok" THEN "ok"
                ELSE IF IsTemperature(line) THEN "temperature"
                ELSE "others"
    IN [ line |-> line, type |-> name, raw |-> line,
         ok |-> FALSE, wait |-> FieldOf(line, "W:") ]

\* runner.parse(line): the first parser that matches the line gives the
\* event's type and payload; a line no parser matches is `others`.
MarlinParse(line) ==
    LET name == IF line = << >> THEN "others"
                ELSE IF Head(line) = "echo:" THEN "echo"
                ELSE IF Head(line) = "Error:" THEN "error"
                ELSE IF Head(line) = "FIRMWARE_NAME:" THEN "firmware"
                ELSE IF line = << "ok" >> THEN "ok"
                ELSE IF Head(line) = "X:" THEN "pos"
                ELSE IF line = << "start" >> THEN "start"
                ELSE IF IsTemperature(line) THEN "temperature"
                ELSE "others"
    IN [ line |-> line, type |-> name, raw |-> line,
         ok |-> name = "temperature" /\ Head(line) = "ok",
         wait |-> IF name = "temperature" THEN FieldOf(line, "W:") ELSE Undefined ]

----------------------------------------------------------------------------
(* MarlinController *)

\* query.issue()
MarlinQueryIssue(c) ==
    IF c.hist.queryType = "none" THEN c
    ELSE [ ConnectionWrite(c, "server",
                           IF c.hist.queryType = "position" THEN "M114" ELSE "M105")
           EXCEPT !.hist.queryType = "none" ]

\* queryPosition(), the throttled body; tolerance: 5 s have passed since it
\* last scheduled a query.
MarlinQueryPosition(c, tolerance) ==
    IF ~c.conn.ready THEN c
    ELSE IF c.hist.queryType = "none" \/ tolerance
    THEN [ c EXCEPT !.hist.queryType = "position" ]
    ELSE c

\* queryTemperature(), the throttled body; tolerance: 10 s.
MarlinQueryTemperature(c, tolerance) ==
    IF ~c.conn.ready THEN c
    ELSE IF c.hist.queryType = "none" \/ tolerance
    THEN [ c EXCEPT !.hist.queryType = "temperature" ]
    ELSE c

\* The write sources whose replies are echoed to the subscribers.
EchoedSources == { "client", "feeder" }

\* runner.on('pos'): the handler reads history.writeSsource, a property that
\* is never set, so no source is found among the echoed ones.
MarlinOnPos(c) ==
    LET writeSsource == "undefined"
    IN IF writeSsource \in EchoedSources
       THEN Emitted(c, "runner", "connection:read")
       ELSE c

\* runner.on('temperature')
MarlinOnTemperature(c) ==
    IF c.hist.writeSource \in EchoedSources
    THEN Emitted(c, "runner", "connection:read")
    ELSE c

\* write(data, context)
MarlinWrite(c, data) ==
    IF ~c.conn.isOpen THEN c ELSE ConnectionWrite(c, "client", data)

\* runner.on('start'): the banner is echoed and M115 is written again.
MarlinOnStart(c) ==
    ConnectionWrite(Emitted(c, "runner", "connection:read"), "server", "M115")

\* A firmware handler that triggers controller:ready at every report.
MarlinOnFirmwareAlways(c) ==
    EventTrigger([ Emitted(c, "runner", "connection:read")
                     EXCEPT !.conn.ready = TRUE ], "controller:ready")

\* runner.on('firmware')
MarlinOnFirmware(c) ==
    LET c1 == Emitted(c, "runner", "connection:read")
    IN IF ~c1.conn.ready
       THEN EventTrigger([ c1 EXCEPT !.conn.ready = TRUE ], "controller:ready")
       ELSE c1

\* runner.on('ok'); starving: a query is scheduled and more than 2 s have
\* passed since the last one was written.
MarlinOnOk(c, starving) ==
    LET c0 == [ c EXCEPT !.hist.writeSource = "none" ]
    IN IF c0.hist.queryType # "none" /\ starving
       THEN MarlinQueryIssue(c0)
       ELSE IF c0.wf = WORKFLOW_STATE_RUNNING
       THEN SenderNext(SenderAck(
                IF c0.s.hold /\ (c0.s.received + 1 >= c0.s.sent)
                THEN SenderUnhold(c0) ELSE c0))
       ELSE IF c0.wf = WORKFLOW_STATE_PAUSED /\ c0.s.received < c0.s.sent
       THEN SenderNext(SenderAck(c0))
       ELSE LET c1 == FeederNext(c0)
            IN IF c1.f.pending THEN c1 ELSE MarlinQueryIssue(c1)

\* runner.on('error')
MarlinOnError(c, ignoreErrors) ==
    IF c.wf = WORKFLOW_STATE_RUNNING
    THEN SenderNext(SenderAck(
             IF ~ignoreErrors THEN WorkflowPause(c, "err") ELSE c))
    ELSE FeederNext(c)

\* command 'sender:load'
MarlinSenderLoad(c, content) ==
    WorkflowStop(EventTrigger(SenderLoad(c, content \o << WAIT >>), "sender:load"))

\* command 'sender:unload'
MarlinSenderUnload(c) == EventTrigger(SenderUnload(WorkflowStop(c)), "sender:unload")

\* command 'sender:start'
MarlinSenderStart(c) ==
    SenderNext(FeederReset(WorkflowStart(EventTrigger(c, "sender:start"))))

\* command 'sender:stop'
MarlinSenderStop(c) == WorkflowStop(EventTrigger(c, "sender:stop"))

\* command 'sender:pause'
MarlinSenderPause(c) == WorkflowPause(EventTrigger(c, "sender:pause"), NoReason)

\* command 'sender:resume'
MarlinSenderResume(c) == WorkflowResume(EventTrigger(c, "sender:resume"))

\* command 'feeder:start'
MarlinFeederStart(c) ==
    IF c.wf = WORKFLOW_STATE_RUNNING THEN c
    ELSE FeederNext(FeederUnhold(c))

\* command 'feeder:stop'
MarlinFeederStop(c) == FeederReset(c)

\* The finish detector at the end of the timer callback.
MarlinFinishDetector(c, zeroOffset) ==
    IF c.at.senderFinishTime > 0
    THEN IF ~zeroOffset
         THEN [ c EXCEPT !.at.senderFinishTime = 1 ]
         ELSE IF c.at.senderFinishTime * TickInterval > FinishTolerance
         THEN MarlinSenderStop([ c EXCEPT !.at.senderFinishTime = 0 ])
         ELSE TimePasses(c)
    ELSE c

\* setInterval callback; runPos, runTemp: the throttles let the query
\* schedulers run.
MarlinQueryTimer(c, runPos, tolPos, runTemp, tolTemp, zeroOffset) ==
    IF ~c.conn.isOpen THEN TimePasses(c)
    ELSE IF ~c.conn.ready THEN TimePasses(c)
    ELSE LET c1 == IF runPos THEN MarlinQueryPosition(c, tolPos) ELSE c
             c2 == IF runTemp THEN MarlinQueryTemperature(c1, tolTemp) ELSE c1
             notBusy == c2.hist.writeSource = "none"
             senderIdle == c2.s.sent = c2.s.received
             feederEmpty == c2.f.queue = << >>
             c3 == IF notBusy /\ senderIdle /\ feederEmpty
                   THEN MarlinQueryIssue(c2) ELSE c2
         IN MarlinFinishDetector(c3, zeroOffset)

\* open(): M115 asks for the firmware report, the Workflow is stopped and a
\* loaded program is unloaded.
MarlinOpen(c) ==
    IF c.conn.isOpen THEN c
    ELSE LET c1 == WorkflowStop(
                       ConnectionWrite([ c EXCEPT !.conn.isOpen = TRUE ],
                                       "server", "M115"))
         IN IF c1.s.lines # << >> THEN MarlinSenderUnload(c1) ELSE c1

----------------------------------------------------------------------------
(* The controllers with their firmware *)

MachineStates == { "Idle", "Run", "Alarm" }
\* buf.rx values of a status report: absent, 128 and 136 bytes free.
RxValues == { 0, 128, 136 }
ClientLines == { "$X" }

Programs == SeqsUpTo(ProgramLines, MaxProg)
GcodeData == SeqsUpTo(FeederLines, MaxFeed) \ { << >> }

InitSender(spType) ==
    [ content |-> << >>, lines |-> << >>, sent |-> 0, received |-> 0, hold |-> FALSE,
      holdReason |-> NoReason, finishTime |-> 0,
      sp |-> [ type |-> spType, bufferSize |-> 128 - 8, dataLength |-> 0 ] ]

InitFeeder ==
    [ queue |-> << >>, hold |-> FALSE, holdReason |-> NoReason, pending |-> FALSE ]

----------------------------------------------------------------------------
(* ServiceEngine: sessions, the controller registry and controller lifetime *)

\* runner.state before the firmware has reported: no machine state, both
\* overrides at their nominal percentage.
OverrideReset == 100
InitRunner == [ machineState |-> "", ovF |-> OverrideReset, ovS |-> OverrideReset ]

\* The controller instances that can be alive at the same time.
InstIds == { "c1", "c2" }
Sessions == { "s1", "s2" }
\* One connection identifier: every `open` names the same port.
Idents == { "/dev/ttyUSB0" }
NoController == "none"
NoSession == "none"

\* new Controller(engine, connectionType, connectionOptions)
NewController ==
    [ type |-> "Grbl", wf |-> WORKFLOW_STATE_IDLE,
      s |-> InitSender(SP_TYPE_CHAR_COUNTING), f |-> InitFeeder,
      mask |-> [ queryParserState |-> [ state |-> FALSE, reply |-> FALSE ],
                 queryStatusReport |-> FALSE,
                 replyParserState |-> FALSE,
                 replyStatusReport |-> FALSE ],
      at |-> [ queryParserState |-> 0, queryStatusReport |-> 0,
               senderFinishTime |-> 0 ],
      conn |-> [ isOpen |-> FALSE, ready |-> FALSE, initialized |-> FALSE ],
      runner |-> InitRunner, state |-> InitRunner, delayed |-> 0,
      hist |-> [ writeSource |-> "none", queryType |-> "none" ],
      wire |-> << >>, out |-> << >>, events |-> { } ]

\* An instance: life is "unborn" before the constructor ran, "alive" until
\* destroy(); settings and state tell whether controller.settings and
\* controller.state are non-empty; opener is the session whose `open` waits
\* for connection.open() to call back; queryTimer tells whether the interval
\* timer of the constructor is set, destroys counts the calls of destroy();
\* waking tells whether Smoothie's open callback waits in its delay(1000).
NoInstance ==
    [ life |-> "unborn", ident |-> "", ctl |-> NewController, sockets |-> { },
      settings |-> FALSE, state |-> FALSE, opener |-> NoSession,
      queryTimer |-> FALSE, destroys |-> 0, waking |-> FALSE ]

\* The constructor: the instance is alive and its interval timer is set.
Construct(ident) ==
    [ NoInstance EXCEPT !.life = "alive", !.ident = ident, !.queryTimer = TRUE ]

NoMail == [ s \in Sessions |-> << >> ]

InitEngine ==
    /\ controllers = [ id \in Idents |-> NoController ]
    /\ instances = [ i \in InstIds |-> NoInstance ]
    /\ pool = { }
    /\ inbox = NoMail

\* The controller after a handler, as the engine keeps it: what the handler
\* wrote is with the firmware, whose input buffer is not followed here.
Settle(c) == [ c EXCEPT !.out = << >>, !.wire = << >> ]

\* The engine as one record; every handler starts with empty inboxes.
Eng == [ controllers |-> controllers, instances |-> instances, pool |-> pool,
         inbox |-> NoMail ]

\* socket.emit(eventName)
SocketEmit(e, s, name) == [ e EXCEPT !.inbox[s] = Append(@, name) ]

\* controller.emit(eventName): to every socket of this.sockets
ControllerEmit(e, i, name) ==
    [ e EXCEPT !.inbox = [ s \in Sessions |->
                             IF s \in e.instances[i].sockets
                             THEN Append(@[s], name) ELSE @[s] ] ]

\* engine.io.emit(eventName): to every connected socket
IoEmit(e, name) ==
    [ e EXCEPT !.inbox = [ s \in Sessions |->
                             IF s \in e.pool THEN Append(@[s], name) ELSE @[s] ] ]

\* Emits the sequence of events to one session, in order.
RECURSIVE SocketEmitAll(_, _, _)
SocketEmitAll(e, s, names) ==
    IF names = << >> THEN e
    ELSE SocketEmitAll(SocketEmit(e, s, Head(names)), s, Tail(names))

\* A replay that sends the Workflow state before the Feeder and Sender status.
ReplayEventsWorkflowFirst(inst) ==
    << "controller:type" >>
    \o (IF inst.ctl.conn.isOpen THEN << "connection:open" >> ELSE << >>)
    \o << "workflow:state", "feeder:status", "sender:status" >>

\* What addSocket replays to the new socket.
ReplayEvents(inst) ==
    << "controller:type" >>
    \o (IF inst.ctl.conn.isOpen THEN << "connection:open" >> ELSE << >>)
    \o (IF inst.settings THEN << "controller:settings", "Grbl:settings" >> ELSE << >>)
    \o (IF inst.state THEN << "controller:state", "Grbl:state" >> ELSE << >>)
    \o << "feeder:status", "sender:status" >>
    \o (IF inst.ctl.s.content # << >> THEN << "sender:load" >> ELSE << >>)
    \o << "workflow:state" >>

\* addSocket(socket)
AddSocket(e, i, s) ==
    SocketEmitAll([ e EXCEPT !.instances[i].sockets = @ \cup { s } ],
                  s, ReplayEvents(e.instances[i]))

\* What destroy() leaves of the controller: this.workflow, this.sender and
\* this.feeder are null, ready and initialized are as close() set them.
NoWorkflow == "null"
Dropped == [ NewController EXCEPT !.wf = NoWorkflow ]

\* A destroy() that leaves the interval timer running.
DestroyKeepingTimer(e, i) ==
    [ e EXCEPT !.instances[i] =
        [ NoInstance EXCEPT !.life = "destroyed", !.ctl = Dropped,
                            !.queryTimer = e.instances[i].queryTimer,
                            !.destroys = e.instances[i].destroys + 1,
                            !.waking = e.instances[i].waking ] ]

\* destroy(): the timer is cleared and sockets, connection, feeder, sender and
\* workflow are dropped.  A callback that waits in a delay is not cancelled.
Destroy(e, i) ==
    [ e EXCEPT !.instances[i] =
        [ NoInstance EXCEPT !.life = "destroyed", !.ctl = Dropped,
                            !.destroys = e.instances[i].destroys + 1,
                            !.waking = e.instances[i].waking ] ]

\* close(callback) with the callback both callers pass: the controller is
\* removed from the registry and destroyed.
ControllerClose(e, i) ==
    LET e1 == [ e EXCEPT !.instances[i].ctl.conn.ready = FALSE,
                         !.instances[i].ctl.conn.initialized = FALSE ]
        e2 == IoEmit(ControllerEmit(e1, i, "connection:close"), "connection:change")
        e3 == [ e2 EXCEPT !.instances[i].ctl.conn.isOpen = FALSE ]
        e4 == [ e3 EXCEPT !.controllers[e.instances[i].ident] = NoController ]
    IN Destroy(e4, i)

\* A removeSocket that closes the controller when its last socket leaves.
RemoveSocketClosing(e, i, s) ==
    LET e1 == [ e EXCEPT !.instances[i].sockets = @ \ { s } ]
    IN IF e1.instances[i].sockets = { } THEN ControllerClose(e1, i) ELSE e1

\* removeSocket(socket)
RemoveSocket(e, i, s) == [ e EXCEPT !.instances[i].sockets = @ \ { s } ]

\* connectionEventListener.close
OnConnectionClose(e, i) ==
    ControllerClose([ e EXCEPT !.instances[i].ctl.conn.ready = FALSE ], i)

\* connectionEventListener.error of one controller
OnTransportError(c) == [ c EXCEPT !.conn.ready = FALSE ]

\* connectionEventListener.error
OnConnectionError(e, i) == [ e EXCEPT !.instances[i].ctl = OnTransportError(@) ]

\* socket.on('disconnect')
OnDisconnect(e, s) ==
    LET i == e.controllers[CHOOSE id \in Idents : TRUE]
        e1 == IF i # NoController THEN RemoveSocket(e, i, s) ELSE e
    IN [ e1 EXCEPT !.pool = @ \ { s } ]

\* socket.on('open') up to the call of connection.open(); fresh is the
\* instance the constructor makes when the registry has none.
OnOpen(e, s, ident, fresh) ==
    LET registered == e.controllers[ident]
        i == IF registered # NoController THEN registered ELSE fresh
        e1 == IF registered # NoController THEN e
              ELSE [ e EXCEPT !.instances[i] = Construct(ident) ]
        e2 == AddSocket(e1, i, s)
    IN IF e2.instances[i].ctl.conn.isOpen THEN e2
       ELSE [ e2 EXCEPT !.instances[i].opener = s ]

\* The callback of connection.open() in controller.open(), with the callback
\* the engine passed.
OnOpened(e, i, err) ==
    IF err
    THEN ControllerEmit([ e EXCEPT !.instances[i].opener = NoSession ],
                        i, "connection:error")
    ELSE LET e1 == [ e EXCEPT !.instances[i].ctl.conn.isOpen = TRUE,
                              !.instances[i].opener = NoSession ]
             e2 == IoEmit(ControllerEmit(e1, i, "connection:open"), "connection:change")
             e3 == [ e2 EXCEPT !.controllers[e.instances[i].ident] = i ]
         IN [ e3 EXCEPT !.instances[i].ctl = Settle(GrblOpen(e.instances[i].ctl)) ]

\* SmoothieController: socket.on('open') for a controller of type Smoothie.
OnOpenSmoothie(e, s, ident, fresh) ==
    LET registered == e.controllers[ident]
        e1 == OnOpen(e, s, ident, fresh)
    IN IF registered # NoController THEN e1
       ELSE [ e1 EXCEPT !.instances[fresh].ctl.type = "Smoothie" ]

\* SmoothieController: the callback of connection.open() up to its
\* `await delay(1000)`.
SmoothieOnOpened(e, i, err) ==
    IF err THEN OnOpened(e, i, err)
    ELSE [ OnOpened(e, i, err) EXCEPT !.instances[i].waking = TRUE ]

\* SmoothieController: initController(), with its delay(50) elapsed.  On a
\* destroyed controller this.feeder is null and command 'gcode' throws.
SmoothieInitController(c) ==
    IF c.wf = NoWorkflow THEN c
    ELSE EventTrigger(GrblGcode(c, << "version" >>), "controller:ready")

\* SmoothieController: the callback of connection.open() after its
\* `await delay(1000)`: the ready flag is set and the controller initialized.
SmoothieOnAwake(e, i) ==
    [ e EXCEPT !.instances[i].waking = FALSE,
               !.instances[i].ctl =
                   Settle(SmoothieInitController([ @ EXCEPT !.conn.ready = TRUE ])) ]

\* controllers[ident]
Lookup(e, ident) ==
    IF ident \in DOMAIN e.controllers THEN e.controllers[ident] ELSE NoController

\* callback(new Error(...)) to the session that sent the request
CallbackError(e, s) == SocketEmit(e, s, "callback:error")

\* socket.on('close')
OnClose(e, s, ident) ==
    IF Lookup(e, ident) = NoController THEN CallbackError(e, s)
    ELSE ControllerClose(e, e.controllers[ident])

\* The controller classes the engine has loaded.
ControllerTypes == { "Grbl", "Marlin", "Smoothie", "TinyG" }
\* The ident of connection options no ident can be derived from.
NoIdent == ""

\* socket.on('open') from its first line: the ident is checked first, the
\* controller type only when the registry has no controller for the ident.
OnOpenOf(e, s, controllerType, ident, fresh) ==
    IF ident = NoIdent THEN CallbackError(e, s)
    ELSE IF Lookup(e, ident) = NoController /\ controllerType \notin ControllerTypes
    THEN CallbackError(e, s)
    ELSE OnOpen(e, s, ident, fresh)

\* The head of the timer callback: settings and state are copied from the
\* runner and published; then the queries of GrblQueryTimer.
OnQueryTimer(e, i, throttled) ==
    LET inst == e.instances[i]
    IN IF ~inst.ctl.conn.isOpen THEN e
       ELSE LET e1 == IF ~inst.settings
                      THEN ControllerEmit(ControllerEmit(
                               [ e EXCEPT !.instances[i].settings = TRUE ],
                               i, "controller:settings"), i, "Grbl:settings")
                      ELSE e
                e2 == IF ~inst.state
                      THEN ControllerEmit(ControllerEmit(
                               [ e1 EXCEPT !.instances[i].state = TRUE ],
                               i, "controller:state"), i, "Grbl:state")
                      ELSE e1
            IN [ e2 EXCEPT !.instances[i].ctl =
                     Settle(GrblQueryTimer(inst.ctl, FALSE, FALSE, throttled, TRUE)) ]

\* socket.on('command'): a handler of the registered, open controller.
OnCommand(e, ident, c) ==
    [ e EXCEPT !.instances[e.controllers[ident]].ctl = Settle(c) ]

----------------------------------------------------------------------------
(* Initial states and the firmware's actions *)

InitCommon ==
    /\ workflow = WORKFLOW_STATE_IDLE
    /\ feeder = InitFeeder
    /\ actionMask = [ queryParserState |-> [ state |-> FALSE, reply |-> FALSE ],
                      queryStatusReport |-> FALSE,
                      replyParserState |-> FALSE,
                      replyStatusReport |-> FALSE ]
    /\ actionTime = [ queryParserState |-> 0, queryStatusReport |-> 0,
                      senderFinishTime |-> 0 ]
    /\ conn = [ isOpen |-> FALSE, ready |-> FALSE, initialized |-> FALSE ]
    /\ runner = InitRunner
    /\ state = InitRunner
    /\ delayed = 0
    /\ parsed = NoEvent
    /\ history = [ writeSource |-> "none", queryType |-> "none" ]
    /\ wire = << >>
    /\ out = << >>
    /\ credit = NoCredit
    /\ InitEngine

\* No reaction is configured.
InitEvents == events = { }

Init ==
    /\ type = "Grbl"
    /\ sender = InitSender(SP_TYPE_CHAR_COUNTING)
    /\ InitCommon
    /\ InitEvents

InitMarlin ==
    /\ type = "Marlin"
    /\ sender = InitSender(SP_TYPE_SEND_RESPONSE)
    /\ InitCommon
    /\ InitEvents

\* A handler has run: its result is the next state, within the bounds.
Do(c) ==
    /\ Len(c.wire) <= MaxWire
    /\ Len(c.f.queue) <= MaxFeed
    /\ Commit(c)
    /\ credit' = NoCredit

\* A firmware reply has been handled; the reply answered a line written by
\* `src` and the handler credited it to `to`.
Replied(c, to, src) ==
    /\ Len(c.wire) <= MaxWire
    /\ Commit(c)
    /\ credit' = [ to |-> to, src |-> src ]

Open ==
    /\ ~conn.isOpen
    /\ Do(GrblOpen(Ctl))

\* The firmware prints its banner after the port is opened.
Startup ==
    /\ conn.isOpen /\ ~conn.ready
    /\ Do(GrblOnStartup([ Ctl EXCEPT !.wire = << >> ]))

SenderLoadOf(programs) ==
    /\ conn.isOpen
    /\ \E content \in programs : Do(GrblSenderLoad(Ctl, content))

SenderLoadCmd == SenderLoadOf(Programs)

SenderStartCmd == conn.isOpen /\ Do(GrblSenderStart(Ctl))
SenderStopCmd == conn.isOpen /\ Do(GrblSenderStop(Ctl))
SenderPauseCmd == conn.isOpen /\ Do(GrblSenderPause(Ctl))
SenderResumeCmd == conn.isOpen /\ Do(GrblSenderResume(Ctl))
FeederStartCmd == conn.isOpen /\ Do(GrblFeederStart(Ctl))
FeederStopCmd == conn.isOpen /\ Do(GrblFeederStop(Ctl))

GcodeOf(lines) ==
    /\ conn.isOpen
    /\ \E data \in lines : Do(GrblGcode(Ctl, data))

GcodeCmd == GcodeOf(GcodeData)

ClientWriteln ==
    /\ conn.isOpen
    /\ \E data \in ClientLines : Do(GrblWriteln(Ctl, data))

\* Who an ok is credited to, from the state the handler finds.
CreditTo(c) ==
    IF c.type = "Grbl" /\ c.mask.queryParserState.reply THEN "mask"
    ELSE IF c.wf = WORKFLOW_STATE_RUNNING
            \/ (c.wf = WORKFLOW_STATE_PAUSED /\ c.s.received < c.s.sent)
    THEN (IF c.s.received < c.s.sent THEN "sender" ELSE "nobody")
    ELSE "feeder"

\* Who an error is credited to.
ErrorCreditTo(c) ==
    IF c.wf = WORKFLOW_STATE_RUNNING
    THEN (IF c.s.received < c.s.sent THEN "sender" ELSE "nobody")
    ELSE "feeder"

\* The firmware answers the oldest pending line with ok.  A `$G` line is
\* answered by the parser state first.
FirmwareOk ==
    /\ conn.isOpen /\ wire # << >>
    /\ Head(wire).text = "$G" => Head(wire).ps
    /\ LET c0 == [ Ctl EXCEPT !.wire = Tail(@) ]
       IN Replied(GrblOnOk(c0), CreditTo(c0), Head(wire).src)

\* The firmware answers the oldest pending line with error:N, under either
\* setting of state.controller.exception.ignoreErrors.
FirmwareErrorWith(ignoreErrors) ==
    /\ conn.isOpen /\ wire # << >>
    /\ Head(wire).text # "$G"
    /\ LET c0 == [ Ctl EXCEPT !.wire = Tail(@) ]
       IN Replied(GrblOnError(c0, ignoreErrors), ErrorCreditTo(c0), Head(wire).src)

FirmwareError == \E ignoreErrors \in BOOLEAN : FirmwareErrorWith(ignoreErrors)

FirmwareParserState ==
    /\ conn.isOpen /\ wire # << >>
    /\ Head(wire).text = "$G" /\ ~Head(wire).ps
    /\ Do(GrblOnParserState([ Ctl EXCEPT !.wire[1].ps = TRUE ]))

FirmwareStatusOf(states, rxs) ==
    /\ conn.isOpen
    /\ \E ms \in states, rx \in rxs :
          Do(GrblOnStatus([ Ctl EXCEPT !.runner.machineState = ms ], rx))

FirmwareStatus == FirmwareStatusOf(MachineStates, RxValues)

Tick ==
    \E tolS, tolP, throttled, zeroOffset \in BOOLEAN :
        Do(GrblQueryTimer(Ctl, tolS, tolP, throttled, zeroOffset))

----------------------------------------------------------------------------
(* Marlin: commands, replies and timer *)

MarlinPrograms == { << LongLine, LongLine >>, << "M0", LongLine >>, << WAIT >> }

MarlinOpenCmd ==
    /\ ~conn.isOpen
    /\ Do(MarlinOpen(Ctl))

MarlinLoadCmd ==
    /\ conn.isOpen
    /\ \E content \in MarlinPrograms : Do(MarlinSenderLoad(Ctl, content))

MarlinStartCmd == conn.isOpen /\ Do(MarlinSenderStart(Ctl))
MarlinStopCmd == conn.isOpen /\ Do(MarlinSenderStop(Ctl))
MarlinPauseCmd == conn.isOpen /\ Do(MarlinSenderPause(Ctl))
MarlinResumeCmd == conn.isOpen /\ Do(MarlinSenderResume(Ctl))

\* The firmware report that answers M115, before its ok.
MarlinFirmware ==
    /\ conn.isOpen /\ wire # << >>
    /\ Head(wire).text = "M115" /\ ~Head(wire).ps
    /\ Do(MarlinOnFirmware([ Ctl EXCEPT !.wire[1].ps = TRUE ]))

MarlinOk ==
    /\ conn.isOpen /\ wire # << >>
    /\ Head(wire).text = "M115" => Head(wire).ps
    /\ \E starving \in BOOLEAN :
          LET c0 == [ Ctl EXCEPT !.wire = Tail(@) ]
          IN Replied(MarlinOnOk(c0, starving),
                     IF c0.hist.queryType # "none" /\ starving
                     THEN "query" ELSE CreditTo(c0),
                     Head(wire).src)

MarlinError ==
    /\ conn.isOpen /\ wire # << >>
    /\ Head(wire).text # "M115"
    /\ \E ignoreErrors \in BOOLEAN :
          LET c0 == [ Ctl EXCEPT !.wire = Tail(@) ]
          IN Replied(MarlinOnError(c0, ignoreErrors), ErrorCreditTo(c0), Head(wire).src)

MarlinTick ==
    \E runPos, tolPos, runTemp, tolTemp, zeroOffset \in BOOLEAN :
        Do(MarlinQueryTimer(Ctl, runPos, tolPos, runTemp, tolTemp, zeroOffset))

----------------------------------------------------------------------------
(* Specifications *)

\* Programs of the specifications that interleave the stream with the
\* Feeder or with the timer.
FeederPrograms == { << LongLine, LongLine >>, << "M0" >> }
TimerPrograms == { << >>, << LongLine >> }

\* The Grbl stream: every program up to MaxProg lines, the operator's
\* sender commands, ok and error replies, and status reports.
Report == FirmwareStatusOf({ "Idle" }, { 128, 136 })

Next ==
    \/ Open
    \/ SenderLoadCmd
    \/ SenderStartCmd
    \/ SenderStopCmd
    \/ SenderPauseCmd
    \/ SenderResumeCmd
    \/ FirmwareOk
    \/ FirmwareError
    \/ Report

Spec == Init /\ [][Next]_vars

\* The Grbl stream interleaved with the Feeder.
LoadForFeeder == SenderLoadOf(FeederPrograms)
AlarmOrIdle == FirmwareStatusOf({ "Idle", "Alarm" }, { 0 })

NextFeeder ==
    \/ Open
    \/ LoadForFeeder
    \/ SenderStartCmd
    \/ SenderStopCmd
    \/ SenderPauseCmd
    \/ SenderResumeCmd
    \/ FeederStartCmd
    \/ FeederStopCmd
    \/ GcodeCmd
    \/ ClientWriteln
    \/ FirmwareOk
    \/ FirmwareError
    \/ AlarmOrIdle

SpecFeeder == Init /\ [][NextFeeder]_vars

\* The Grbl stream with the 250 ms timer, its queries and their replies.
LoadForTimer == SenderLoadOf(TimerPrograms)
RunOrIdle == FirmwareStatusOf({ "Idle", "Run" }, { 0 })
Jog == GcodeOf({ << ShortLine >> })

NextTimer ==
    \/ Open
    \/ Startup
    \/ LoadForTimer
    \/ SenderStartCmd
    \/ SenderStopCmd
    \/ SenderPauseCmd
    \/ SenderResumeCmd
    \/ Jog
    \/ FirmwareOk
    \/ FirmwareParserState
    \/ RunOrIdle
    \/ Tick

SpecTimer == Init /\ [][NextTimer]_vars

\* The Marlin stream.
NextMarlin ==
    \/ MarlinOpenCmd
    \/ MarlinLoadCmd
    \/ MarlinStartCmd
    \/ MarlinStopCmd
    \/ MarlinPauseCmd
    \/ MarlinResumeCmd
    \/ MarlinFirmware
    \/ MarlinOk
    \/ MarlinError
    \/ MarlinTick

SpecMarlin == InitMarlin /\ [][NextMarlin]_vars

\* The Grbl stream under both configurations of the event trigger: with and
\* without a G-code reaction for sender:stop.
StopEvents == { { }, { "sender:stop" } }

InitStop ==
    /\ type = "Grbl"
    /\ sender = InitSender(SP_TYPE_CHAR_COUNTING)
    /\ InitCommon
    /\ events \in StopEvents

NextStop ==
    \/ Open
    \/ LoadForFeeder
    \/ SenderStartCmd
    \/ SenderStopCmd
    \/ SenderPauseCmd
    \/ SenderResumeCmd
    \/ FirmwareOk
    \/ FirmwareError

SpecStop == InitStop /\ [][NextStop]_vars

\* Loading texts with empty lines into the Grbl stream.
RawLines == { "", LongLine, "M0" }
RawPrograms == SeqsUpTo(RawLines, MaxProg)
LoadRaw == SenderLoadOf(RawPrograms)

NextLoad ==
    \/ Open
    \/ LoadRaw
    \/ SenderStartCmd
    \/ SenderStopCmd
    \/ SenderPauseCmd
    \/ FirmwareOk

SpecLoad == Init /\ [][NextLoad]_vars

\* The Grbl timer with a client that asks for status reports itself.
ClientQuery == conn.isOpen /\ Do(GrblWrite(Ctl, "?"))

NextEcho ==
    \/ Open
    \/ Startup
    \/ ClientQuery
    \/ LoadForTimer
    \/ SenderStartCmd
    \/ FirmwareOk
    \/ RunOrIdle
    \/ Tick

SpecEcho == Init /\ [][NextEcho]_vars

\* Marlin with a transport that can report an error while it stays open.
MarlinTransportError == conn.isOpen /\ Do(OnTransportError(Ctl))

NextQuery ==
    \/ NextMarlin
    \/ MarlinTransportError

SpecQuery == InitMarlin /\ [][NextQuery]_vars

\* The Grbl stream of programs that pause themselves, with a firmware that
\* answers every line it was sent with ok.
PausingPrograms ==
    { << "M6", LongLine >>, << LongLine, "M0" >>, << "M1", "M6" >>, << WAIT, "M6" >> }
LoadPausing == SenderLoadOf(PausingPrograms)

NextLive ==
    \/ Open
    \/ LoadPausing
    \/ SenderStartCmd
    \/ SenderStopCmd
    \/ SenderPauseCmd
    \/ SenderResumeCmd
    \/ FirmwareOk

\* The firmware answers every line it holds: while a line is pending, a
\* reply is eventually handled.  `credit` is set by the reply handlers only
\* and cleared by every other step, so the steps that set it are the replies.
ReplyArrives ==
    /\ conn.isOpen /\ wire # << >>
    /\ credit' \in [ to : { "sender", "feeder", "nobody", "mask" },
                     src : { "sender", "feeder", "client", "server" } ]

SpecLive == Init /\ [][NextLive]_vars /\ WF_credit(ReplyArrives)

\* Overrides on Smoothie and Marlin: the operator changes the feed and the
\* spindle override by the steps of Deltas while the firmware answers the
\* M220 and M221 lines.
Deltas == { 0 - 500, 0 - 100, 0 - 10, 0, 10, 100, 500 }

InitOverride ==
    /\ type \in { "Smoothie", "Marlin" }
    /\ sender = InitSender(IF type = "Marlin" THEN SP_TYPE_SEND_RESPONSE
                           ELSE SP_TYPE_CHAR_COUNTING)
    /\ InitCommon
    /\ InitEvents

SmoothieOpen == type = "Smoothie" /\ Open
SmoothieOk == type = "Smoothie" /\ FirmwareOk
MarlinOpens == type = "Marlin" /\ MarlinOpenCmd
MarlinReports == type = "Marlin" /\ MarlinFirmware
MarlinAnswers == type = "Marlin" /\ MarlinOk

OverrideFeed ==
    \E value \in Deltas :
        /\ conn.isOpen
        /\ IF type = "Marlin" THEN Do(MarlinOverrideFeed(Ctl, value))
           ELSE Do(SmoothieOverrideFeed(Ctl, value))

OverrideSpindle ==
    \E value \in Deltas :
        /\ conn.isOpen
        /\ IF type = "Marlin" THEN Do(MarlinOverrideSpindle(Ctl, value))
           ELSE Do(SmoothieOverrideSpindle(Ctl, value))

NextOverride ==
    \/ SmoothieOpen
    \/ SmoothieOk
    \/ MarlinOpens
    \/ MarlinReports
    \/ MarlinAnswers
    \/ OverrideFeed
    \/ OverrideSpindle

SpecOverride == InitOverride /\ [][NextOverride]_vars

\* Marlin from open to ready: the firmware boots (start) at any time, answers
\* M115 with its report, and the transport may fail; controller:ready has a
\* G-code reaction or none.
ReadyEvents == { { }, { "controller:ready" } }

InitReady ==
    /\ type = "Marlin"
    /\ sender = InitSender(SP_TYPE_SEND_RESPONSE)
    /\ InitCommon
    /\ events \in ReadyEvents

\* The firmware prints `start`.
MarlinStart == conn.isOpen /\ Do(MarlinOnStart(Ctl))

NextReady ==
    \/ MarlinOpenCmd
    \/ MarlinStart
    \/ MarlinFirmware
    \/ MarlinOk
    \/ MarlinTransportError
    \/ MarlinLoadCmd
    \/ MarlinStartCmd

SpecReady == InitReady /\ [][NextReady]_vars

\* Command 'gcode' with blank lines among its lines, on Grbl and on Marlin,
\* next to a program that may be running.
RawCommands ==
    { << ShortLine >>, << "", ShortLine >>, << ShortLine, " ", ShortLine >>, << " " >> }

InitGcode ==
    /\ type \in { "Grbl", "Marlin" }
    /\ sender = InitSender(IF type = "Marlin" THEN SP_TYPE_SEND_RESPONSE
                           ELSE SP_TYPE_CHAR_COUNTING)
    /\ InitCommon
    /\ InitEvents

GcodeStep(commands) ==
    /\ conn.isOpen
    /\ IF type = "Marlin" THEN Do(MarlinGcode(Ctl, commands))
       ELSE Do(GrblGcode(Ctl, commands))

GcodeRaw == \E commands \in RawCommands : GcodeStep(commands)

GrblOpens == type = "Grbl" /\ Open
GrblStarts == type = "Grbl" /\ SenderStartCmd
GrblAnswers == type = "Grbl" /\ FirmwareOk
GrblAlarmOrIdle == type = "Grbl" /\ AlarmOrIdle
MarlinStarts == type = "Marlin" /\ MarlinStartCmd
GrblLoads == type = "Grbl" /\ LoadForTimer
MarlinLoads == type = "Marlin" /\ MarlinLoadCmd

NextGcode ==
    \/ GrblOpens
    \/ GrblStarts
    \/ GrblAnswers
    \/ GrblAlarmOrIdle
    \/ MarlinOpens
    \/ MarlinReports
    \/ MarlinAnswers
    \/ MarlinStarts
    \/ GrblLoads
    \/ MarlinLoads
    \/ GcodeRaw

SpecGcode == InitGcode /\ [][NextGcode]_vars

\* Marlin's position and temperature reports: M114 and M105 are written by
\* the server's timer, by a client, by the Feeder and by the Sender; the
\* firmware answers each with its report and then with ok.
QueryLines == { "M114", "M105" }

MarlinClientWrite ==
    /\ conn.isOpen
    /\ \E data \in QueryLines : Do(MarlinWrite(Ctl, data))

MarlinGcodeQuery ==
    /\ conn.isOpen
    /\ \E data \in QueryLines : Do(MarlinGcode(Ctl, << data >>))

MarlinLoadQuery ==
    /\ conn.isOpen
    /\ Do(MarlinSenderLoad(Ctl, << "M114" >>))

\* The timer when only the position query is due.
MarlinPosTick ==
    \E tolPos \in BOOLEAN :
        Do(MarlinQueryTimer(Ctl, TRUE, tolPos, FALSE, FALSE, TRUE))

\* The firmware answers M114 with its position report, before the ok.
MarlinPos ==
    /\ conn.isOpen /\ wire # << >>
    /\ Head(wire).text = "M114" /\ ~Head(wire).ps
    /\ Do(MarlinOnPos([ Ctl EXCEPT !.wire[1].ps = TRUE ]))

\* The firmware answers M105 with its temperature report, before the ok.
MarlinTemperature ==
    /\ conn.isOpen /\ wire # << >>
    /\ Head(wire).text = "M105" /\ ~Head(wire).ps
    /\ Do(MarlinOnTemperature([ Ctl EXCEPT !.wire[1].ps = TRUE ]))

NextPos ==
    \/ MarlinOpenCmd
    \/ MarlinFirmware
    \/ MarlinOk
    \/ MarlinPosTick
    \/ MarlinClientWrite
    \/ MarlinGcodeQuery
    \/ MarlinLoadQuery
    \/ MarlinStartCmd
    \/ MarlinPos
    \/ MarlinTemperature

SpecPos == InitMarlin /\ [][NextPos]_vars

\* Marlin with the lines of its firmware: every line goes through the
\* runner's parsers to the handler of the event it is parsed to.
WaitValues == { "?", "0" }
TemperatureLines ==
    { pre \o body \o w :
        pre \in { << "ok" >>, << "" >> },
        body \in { << "T:", "0" >>, << "T:", "293.0 /0.0", "B:", "25.9 /0.0" >> },
        w \in { << >> } \cup { << "W:", v >> : v \in WaitValues } }
MarlinLines ==
    TemperatureLines
    \cup { << "ok" >>, << "start" >>, << "echo:", "message" >>,
           << "Error:", "Printer halted. kill() called!" >>,
           << "FIRMWARE_NAME:", "Marlin 1.1.0" >>,
           << "X:", "1.529", "Y:", "-5.440" >>,
           << "wait" >> }

\* connectionEventListener.data with one line: the runner parses it and the
\* handler of the event runs; an ok or an error answers the oldest line.
MarlinOnData(c, line, flag) ==
    LET res == MarlinParse(line)
        c0 == [ c EXCEPT !.parsed = res ]
        c1 == IF c0.wire # << >> THEN [ c0 EXCEPT !.wire = Tail(@) ] ELSE c0
    IN CASE res.type = "ok" -> MarlinOnOk(c1, flag)
         [] res.type = "error" -> MarlinOnError(c1, flag)
         [] res.type = "firmware" -> MarlinOnFirmware(c0)
         [] res.type = "start" -> MarlinOnStart(c0)
         [] res.type = "pos" -> MarlinOnPos(c0)
         [] res.type = "temperature" -> MarlinOnTemperature(c0)
         [] OTHER -> Emitted(c0, "runner", "connection:read")

MarlinData ==
    /\ conn.isOpen
    /\ \E line \in MarlinLines, flag \in BOOLEAN : Do(MarlinOnData(Ctl, line, flag))

NextParse ==
    \/ MarlinOpenCmd
    \/ MarlinClientWrite
    \/ MarlinData

SpecParse == InitMarlin /\ [][NextParse]_vars

\* Stopping with force: the machine reports Idle, Run or Hold, the timer
\* copies the report, and a forced stop waits before its second write.
MaxDelayed == 2

SenderStopWith ==
    \E force \in BOOLEAN :
        /\ conn.isOpen /\ delayed < MaxDelayed
        /\ Do(GrblSenderStopWith(Ctl, force))

\* delay(500) of a forced stop is over.
SenderStopDelayed == delayed > 0 /\ Do(GrblSenderStopDelayed(Ctl))

RunHoldOrIdle == FirmwareStatusOf({ "Idle", "Run", "Hold" }, { 0 })

NextForce ==
    \/ Open
    \/ Startup
    \/ LoadForTimer
    \/ SenderStartCmd
    \/ SenderStopWith
    \/ SenderStopDelayed
    \/ FirmwareOk
    \/ RunHoldOrIdle
    \/ Tick

SpecForce == Init /\ [][NextForce]_vars

\* The Grbl timer with a firmware that may re-initialize at any time: the
\* startup banner "always prints upon startup, after a reset, or at program
\* end", and what the firmware held in its input buffer is gone.
Reboot ==
    /\ conn.isOpen /\ conn.ready
    /\ Do(GrblOnStartup([ Ctl EXCEPT !.wire = << >> ]))

NextStatus ==
    \/ Open
    \/ Startup
    \/ Reboot
    \/ ClientQuery
    \/ LoadForTimer
    \/ SenderStartCmd
    \/ FirmwareOk
    \/ FirmwareParserState
    \/ RunOrIdle
    \/ Tick

SpecStatus == Init /\ [][NextStatus]_vars

\* The idle Grbl controller draining its Feeder: command 'gcode' feeds
\* lines, among them `$G`; the timer runs; the firmware answers every line
\* it holds, a `$G` line with its parser-state report and then ok.
DrainData == { << ShortLine >>, << "$G", ShortLine >>, << ShortLine, "$G" >> }
GcodeDrain == GcodeOf(DrainData)

NextDrain ==
    \/ Open
    \/ Startup
    \/ GcodeDrain
    \/ FirmwareOk
    \/ FirmwareParserState
    \/ Report
    \/ Tick

\* While a `$G` line awaits its report, the report eventually arrives.
ParserStateArrives ==
    /\ conn.isOpen /\ wire # << >>
    /\ Head(wire).text = "$G" /\ ~Head(wire).ps
    /\ wire' = [ wire EXCEPT ![1].ps = TRUE ]

SpecDrain ==
    /\ Init /\ [][NextDrain]_vars
    /\ WF_credit(ReplyArrives) /\ WF_wire(ParserStateArrives)

\* The Grbl stream with state.controller.exception.ignoreErrors set: the
\* programs hold no pausing line, the operator loads while the Workflow is
\* Idle and starts, and the firmware answers every line with ok or error.
WaitPrograms == SeqsUpTo({ LongLine, ShortLine, WAIT }, MaxProg)
LoadIdle == workflow = WORKFLOW_STATE_IDLE /\ SenderLoadOf(WaitPrograms)
ErrorIgnored == FirmwareErrorWith(TRUE)

NextIgnore ==
    \/ Open
    \/ LoadIdle
    \/ SenderStartCmd
    \/ FirmwareOk
    \/ ErrorIgnored

SpecIgnore == Init /\ [][NextIgnore]_vars /\ WF_credit(ReplyArrives)

----------------------------------------------------------------------------
(* The ServiceEngine with sessions, transports and firmware *)

EnginePrograms == { << LongLine >> }

\* An engine handler has run: its result is the next state.
EDo(e) ==
    /\ controllers' = e.controllers
    /\ instances' = e.instances
    /\ pool' = e.pool
    /\ inbox' = e.inbox
    /\ UNCHANGED cvars

Alive(i) == instances[i].life = "alive"
IsOpen(i) == Alive(i) /\ instances[i].ctl.conn.isOpen
Registered(ident) == controllers[ident] # NoController
\* Where the constructor can put a new instance.
Unborn == { i \in InstIds : instances[i].life # "alive" }

\* io.on('connection')
Connect == \E s \in Sessions \ pool : EDo([ Eng EXCEPT !.pool = @ \cup { s } ])

Disconnect == \E s \in pool : EDo(OnDisconnect(Eng, s))

OpenRequest ==
    \E s \in pool, ident \in Idents :
        /\ Registered(ident) \/ Unborn # { }
        /\ LET fresh == IF Unborn # { } THEN CHOOSE i \in Unborn : TRUE
                        ELSE CHOOSE i \in InstIds : TRUE
           IN EDo(OnOpen(Eng, s, ident, fresh))

\* connection.open() calls back without an error.
OpenSucceeds ==
    \E i \in InstIds :
        /\ Alive(i) /\ instances[i].opener # NoSession
        /\ EDo(OnOpened(Eng, i, FALSE))

\* connection.open() calls back with an error.
OpenFails ==
    \E i \in InstIds :
        /\ Alive(i) /\ instances[i].opener # NoSession
        /\ EDo(OnOpened(Eng, i, TRUE))

CloseRequest ==
    \E s \in pool, ident \in Idents :
        /\ Registered(ident)
        /\ EDo(OnClose(Eng, s, ident))

\* The transport emits 'close'.
TransportClose == \E i \in InstIds : IsOpen(i) /\ EDo(OnConnectionClose(Eng, i))

\* The transport of instance i emits 'error'.
TransportErrorOf(i) == IsOpen(i) /\ EDo(OnConnectionError(Eng, i))

TransportError == \E i \in InstIds : TransportErrorOf(i)

\* The firmware prints its banner.
Banner ==
    \E i \in InstIds :
        /\ IsOpen(i) /\ ~instances[i].ctl.conn.ready
        /\ EDo([ Eng EXCEPT !.instances[i].ctl =
                   Settle(GrblOnStartup(instances[i].ctl)) ])

LoadRequest ==
    \E s \in pool, ident \in Idents, content \in EnginePrograms :
        /\ Registered(ident) /\ IsOpen(controllers[ident])
        /\ EDo(OnCommand(Eng, ident,
                         GrblSenderLoad(instances[controllers[ident]].ctl, content)))

StartRequest ==
    \E s \in pool, ident \in Idents :
        /\ Registered(ident) /\ IsOpen(controllers[ident])
        /\ EDo(OnCommand(Eng, ident,
                         GrblSenderStart(instances[controllers[ident]].ctl)))

TimerFires ==
    \E i \in InstIds, throttled \in BOOLEAN :
        /\ instances[i].queryTimer
        /\ EDo(OnQueryTimer(Eng, i, throttled))

NextEngine ==
    \/ Connect
    \/ Disconnect
    \/ OpenRequest
    \/ OpenSucceeds
    \/ OpenFails
    \/ CloseRequest
    \/ TransportClose
    \/ TransportError
    \/ Banner
    \/ LoadRequest
    \/ StartRequest
    \/ TimerFires

SpecEngine == Init /\ [][NextEngine]_vars

\* The engine with Smoothie controllers, whose open callback sets the ready
\* flag one second after the transport has opened.
SmoothieOpenRequest ==
    \E s \in pool, ident \in Idents :
        LET free == { i \in Unborn : ~instances[i].waking }
        IN /\ Registered(ident) \/ free # { }
           /\ LET fresh == IF free # { } THEN CHOOSE i \in free : TRUE
                           ELSE CHOOSE i \in InstIds : TRUE
              IN EDo(OnOpenSmoothie(Eng, s, ident, fresh))

SmoothieOpenSucceeds ==
    \E i \in InstIds :
        /\ Alive(i) /\ instances[i].opener # NoSession
        /\ EDo(SmoothieOnOpened(Eng, i, FALSE))

\* delay(1000) of the open callback is over.
SmoothieAwake ==
    \E i \in InstIds : instances[i].waking /\ EDo(SmoothieOnAwake(Eng, i))

NextSmoothie ==
    \/ Connect
    \/ Disconnect
    \/ SmoothieOpenRequest
    \/ SmoothieOpenSucceeds
    \/ OpenFails
    \/ SmoothieAwake
    \/ CloseRequest
    \/ TransportClose
    \/ LoadRequest

SpecSmoothie == Init /\ [][NextSmoothie]_vars

\* The engine with requests that do not pass its checks.
RequestTypes == { "Grbl", "Laser" }
RequestIdents == Idents \cup { NoIdent, "/dev/ttyS9" }
RequestCommands == { "sender:start", "sender:stop", "sender:pause", "homing:all" }

OpenWith(s, controllerType, ident) ==
    /\ s \in pool
    /\ Lookup(Eng, ident) # NoController \/ Unborn # { }
    /\ LET fresh == IF Unborn # { } THEN CHOOSE i \in Unborn : TRUE
                    ELSE CHOOSE i \in InstIds : TRUE
       IN EDo(OnOpenOf(Eng, s, controllerType, ident, fresh))

CloseWith(s, ident) == s \in pool /\ EDo(OnClose(Eng, s, ident))

CommandWith(s, ident, cmd) ==
    /\ s \in pool
    /\ Registered(ident) /\ IsOpen(controllers[ident])
    /\ EDo(OnCommand(Eng, ident, GrblCommand(instances[controllers[ident]].ctl, cmd)))

OpenAny ==
    \E s \in Sessions, controllerType \in RequestTypes, ident \in RequestIdents \ { "/dev/ttyS9" } :
        OpenWith(s, controllerType, ident)

CloseAny == \E s \in Sessions, ident \in RequestIdents : CloseWith(s, ident)

CommandAny ==
    \E s \in Sessions, ident \in Idents, cmd \in RequestCommands :
        CommandWith(s, ident, cmd)

NextValidate ==
    \/ Connect
    \/ OpenAny
    \/ OpenSucceeds
    \/ CloseAny
    \/ Banner
    \/ LoadRequest
    \/ CommandAny

SpecValidate == Init /\ [][NextValidate]_vars

----------------------------------------------------------------------------
(* Properties *)

\* Writes and events of the last handler.
Writes(src) == { i \in DOMAIN out : out[i].ev = "write" /\ out[i].src = src }
Events(src) == { i \in DOMAIN out : out[i].ev = "data" /\ out[i].src = src }
Triggered(name) == \E i \in DOMAIN out : out[i].src = "event" /\ out[i].text = name

\* The step handles a reply of the firmware (an ok or an error).
ReplyHandled == credit' # NoCredit

RECURSIVE BytesFrom(_, _)
BytesFrom(s, i) ==
    IF i > s.sent THEN 0
    ELSE Len(GrblFilterText(s.lines[i])) + 1 + BytesFrom(s, i + 1)

UnackedBytes == BytesFrom(sender, sender.received + 1)

\* C2: under character counting the bytes of the lines sent and not yet
\* acknowledged (length + 1 each) never exceed sp.bufferSize; the counter
\* dataLength is that sum, so a line is sent only if it still fits.
C2_BufferBound ==
    sender.sp.type = SP_TYPE_CHAR_COUNTING =>
        /\ sender.sp.dataLength = UnackedBytes
        /\ UnackedBytes <= sender.sp.bufferSize
        /\ \A i \in Writes("sender") : out[i].bytes <= sender.sp.bufferSize

\* The buffer is full to the last byte and the next line has to wait.
C2_Witness ==
    /\ workflow = WORKFLOW_STATE_RUNNING
    /\ ~sender.hold
    /\ sender.sp.dataLength = sender.sp.bufferSize
    /\ sender.sent < Len(sender.lines)
    /\ Writes("sender") # { }

\* C3: with `gcode` commands interleaved with a streaming program, no Feeder
\* line is written between program lines, every ok credited to the Sender
\* answers a line the Sender wrote, and the bytes pending in the firmware's
\* input buffer stay within sp.bufferSize.
C3_NoInterleaving ==
    /\ \A i \in Writes("feeder") :
          out[i].wf = WORKFLOW_STATE_RUNNING => sender.received = Len(sender.lines)
    /\ credit.to = "sender" => credit.src = "sender"
    /\ SumBytes(wire) <= sender.sp.bufferSize

\* C4: while the Workflow is Idle the Sender emits no program line and none
\* is written to the transport; what is written in Idle comes from the
\* Feeder, the controller's queries or a client's direct write.
C4_IdleSenderSilent ==
    /\ \A i \in Writes("sender") \cup Events("sender") :
          out[i].wf # WORKFLOW_STATE_IDLE
    /\ \A i \in DOMAIN out :
          out[i].ev = "write" /\ out[i].wf = WORKFLOW_STATE_IDLE
              => out[i].src \in { "feeder", "server", "client" }

\* A program is loaded, the Workflow is Idle, and the transport has just
\* been driven by the Feeder.
C4_Witness ==
    /\ workflow = WORKFLOW_STATE_IDLE
    /\ Len(sender.lines) > 1
    /\ \E i \in Writes("feeder") : out[i].wf = WORKFLOW_STATE_IDLE

SentinelWritten ==
    \E i \in Writes("sender") : out[i].text \in { "M0", "M1", "(M6)" }

C7_WaitHolds ==
    /\ \A i \in Writes("sender") :
          out[i].text = GrblDwell /\ out[i].unacked > 0 /\ i = Len(out)
              => sender.hold
    /\ \A k \in (sender.received + 1) .. (sender.sent - 1) :
          sender.lines[k] # WAIT

\* The program is sent and acknowledged to its last line.
Drained ==
    /\ sender.lines # << >>
    /\ sender.received = Len(sender.lines)
    /\ sender.sent = sender.received

\* C8: a program line with M0, M1 or M6 is still written (M6 as `(M6)`) and
\* the Workflow is then Paused with that word as the reason; while Paused no
\* program line is written until sender:resume, which writes `~` before it
\* resumes the Workflow; once Running again the remaining lines are
\* eventually all sent and acknowledged, unless the program pauses again or
\* the operator stops it.
C8_PauseAndDrain ==
    /\ [](\A i \in Writes("sender") :
             /\ out[i].text # "M6"
             /\ out[i].text \in { "M0", "M1", "(M6)" }
                 => /\ out[i].wf = WORKFLOW_STATE_PAUSED
                    /\ workflow = WORKFLOW_STATE_PAUSED
                    /\ sender.hold
                    /\ sender.holdReason
                         = (IF out[i].text = "(M6)" THEN "M6" ELSE out[i].text))
    /\ [][ workflow = WORKFLOW_STATE_PAUSED /\ Writes("sender")' # { }
           => /\ Triggered("sender:resume")'
              /\ out'[2].ev = "write" /\ out'[2].text = "~"
              /\ out'[2].wf = WORKFLOW_STATE_PAUSED
              /\ \A i \in Writes("sender")' : i > 2 ]_vars
    /\ (workflow = WORKFLOW_STATE_RUNNING /\ sender.lines # << >>)
           ~> (Drained \/ workflow # WORKFLOW_STATE_RUNNING)

\* A program with a tool change has been resumed and has drained.
C8_Witness ==
    /\ workflow = WORKFLOW_STATE_RUNNING
    /\ Drained
    /\ \E k \in DOMAIN sender.lines : sender.lines[k] = "M6"
    /\ credit = [ to |-> "sender", src |-> "sender" ]

\* C9: after the Feeder has emitted a line with M0, M1 or M6 it is held
\* with that word as the reason; while it is held, `gcode` data is queued
\* behind what is waiting and no Feeder line is written, until feeder:start
\* (or a reset of the queue, after which the Feeder is no longer held).
C9_FeederHold ==
    /\ [](\A i \in Writes("feeder") :
             out[i].text \in { "M0", "M1", "(M6)" }
                 => /\ feeder.hold
                    /\ feeder.holdReason
                         = (IF out[i].text = "(M6)" THEN "M6" ELSE out[i].text))
    /\ [][ feeder.hold /\ ~FeederStartCmd =>
             /\ Writes("feeder")' = { } /\ Events("feeder")' = { }
             /\ feeder.hold' =>
                    /\ Len(feeder.queue') >= Len(feeder.queue)
                    /\ SubSeq(feeder.queue', 1, Len(feeder.queue)) = feeder.queue
             /\ ~feeder.hold' => feeder.queue' = << >> ]_vars

\* The Feeder is held after M0 or M6 and a later `gcode` line waits in the
\* queue.
C9_Witness ==
    /\ feeder.hold
    /\ feeder.holdReason \in { "M0", "M6" }
    /\ feeder.queue # << >>
    /\ Writes("feeder") = { }

\* C10: the timer issues sender:stop only after the last line of the loaded
\* program has been acknowledged and only while the machine is idle.
C10_StopOnlyWhenDone ==
    [][ Triggered("sender:stop")' /\ Tick
        => Drained /\ runner.machineState = "Idle" ]_vars

\* The controller instances that are alive for an ident.
AliveFor(ident) == { i \in InstIds : Alive(i) /\ instances[i].ident = ident }

\* C11: whatever way `open` requests of several sessions for the same ident
\* interleave, at most one controller instance is alive for the ident, and
\* the registry entry of the ident is that instance.
C11_OneControllerPerIdent ==
    \A ident \in Idents :
        /\ Cardinality(AliveFor(ident)) <= 1
        /\ Registered(ident) => controllers[ident] \in AliveFor(ident)

\* A session has left the engine's pool in this step.
SessionLeft == pool' # pool /\ pool' \subseteq pool

\* C12: when a session disconnects, also when it was the last subscriber,
\* the registry is unchanged and every controller keeps its connection as it
\* was (open stays open), its ready flag, its Workflow, its Sender and its
\* Feeder; no controller is closed or destroyed.
C12_DisconnectFrame ==
    [][ SessionLeft =>
          /\ controllers' = controllers
          /\ \A i \in InstIds :
                /\ instances'[i].life = instances[i].life
                /\ instances'[i].ctl.conn = instances[i].ctl.conn
                /\ instances'[i].ctl.wf = instances[i].ctl.wf
                /\ instances'[i].ctl.s = instances[i].ctl.s
                /\ instances'[i].ctl.f = instances[i].ctl.f ]_vars

\* Every session has gone and the registered controller, without a
\* subscriber, is still open and ready and runs its program.
C12_Witness ==
    /\ pool = { }
    /\ \E ident \in Idents :
          /\ Registered(ident)
          /\ LET inst == instances[controllers[ident]]
             IN /\ inst.life = "alive"
                /\ inst.sockets = { }
                /\ inst.ctl.conn.isOpen /\ inst.ctl.conn.ready
                /\ inst.ctl.wf = WORKFLOW_STATE_RUNNING
                /\ inst.ctl.s.lines # << >>

\* C13: a session that has disconnected is in the subscriber set of no live
\* controller, whether the controller's transport open has completed, is in
\* progress or has failed.
C13_NoStaleSubscriber ==
    \A i \in InstIds : Alive(i) => instances[i].sockets \subseteq pool

QueryCommands == { "?", "$G", "M114", "M105" }

\* C14: while the ready flag is false the controller writes none of the
\* query commands ?, $G, M114, M105, neither from the timer nor from the
\* ok handler that issues a scheduled query.
C14_NoQueryUnlessReady ==
    ~conn.ready =>
        \A i \in Writes("server") : out[i].text \notin QueryCommands

\* The last two handlers were both sender:stop.
StoppedTwice == Triggered("sender:stop") /\ Triggered("sender:stop")'

StopFrame == workflow' = workflow /\ sender' = sender /\ feeder' = feeder

\* C15 as stated: a second sender:stop right after a sender:stop changes
\* neither the Workflow state nor the Sender (counters, hold flag) nor the
\* Feeder.
C15_StopIdempotentAlways == [][ StoppedTwice => StopFrame ]_vars

\* C15: when no G-code reaction is configured for the event sender:stop, a
\* second sender:stop right after a sender:stop changes neither the Workflow
\* state nor the Sender (counters, hold flag) nor the Feeder.
C15_StopIdempotent ==
    [][ StoppedTwice /\ "sender:stop" \notin events => StopFrame ]_vars

\* sender:stop has just stopped a program whose lines are still with the
\* firmware, and no reaction is configured.
C15_Witness ==
    /\ Triggered("sender:stop")
    /\ "sender:stop" \notin events
    /\ workflow = WORKFLOW_STATE_IDLE
    /\ sender.lines # << >> /\ sender.sent = 0
    /\ wire # << >>

\* The text given to the last sender:load: state.content without the line
\* the handler appended.
LoadedContent == SubSeq(sender.content, 1, Len(sender.content) - 1)

\* C16: after sender:load(content) the Sender holds the non-empty lines of
\* content followed by one %wait line, so lines.length is the number of
\* non-empty lines of content plus 1; sent and received are 0 and the
\* Workflow is Idle.
C16_LoadAppendsWait ==
    Triggered("sender:load") =>
        /\ sender.content # << >>
        /\ sender.lines = NonEmptyLines(LoadedContent) \o << WAIT >>
        /\ Len(sender.lines)
             = Cardinality({ i \in DOMAIN LoadedContent : LoadedContent[i] # "" }) + 1
        /\ sender.sent = 0 /\ sender.received = 0
        /\ workflow = WORKFLOW_STATE_IDLE

\* A text with an empty line and a G-code line has been loaded while the
\* previous program was streaming.
C16_Witness ==
    /\ Triggered("sender:load")
    /\ \E i \in DOMAIN LoadedContent : LoadedContent[i] = ""
    /\ Len(sender.lines) = 2
    /\ wire # << >>

\* The events of the last handler that reached session s, without the
\* backward-compatible duplicates Grbl:settings and Grbl:state.
Received(s) ==
    SelectSeq(inbox[s], LAMBDA name : name \notin { "Grbl:settings", "Grbl:state" })

\* The replay a session is to get from a controller in the given state.
ExpectedReplay(inst) ==
    << "controller:type", "connection:open" >>
    \o (IF inst.settings THEN << "controller:settings" >> ELSE << >>)
    \o (IF inst.state THEN << "controller:state" >> ELSE << >>)
    \o << "feeder:status", "sender:status" >>
    \o (IF inst.ctl.s.content # << >> THEN << "sender:load" >> ELSE << >>)
    \o << "workflow:state" >>

\* C17: a session added to an already-open controller receives, in this
\* order and each once, controller:type, connection:open,
\* controller:settings and controller:state (when the controller has them),
\* feeder:status, sender:status, sender:load (only if a program is loaded)
\* and workflow:state, and nothing else between or after them in that
\* handler.
C17_ReplayOrder ==
    [][ \A ident \in Idents, s \in Sessions :
          ( /\ Registered(ident)
            /\ IsOpen(controllers[ident])
            /\ \E k \in DOMAIN inbox'[s] : inbox'[s][k] = "controller:type" )
          => Received(s)' = ExpectedReplay(instances[controllers[ident]]) ]_vars

\* A session has just been added to an open controller that has its
\* settings and a loaded program.
C17_Witness ==
    \E s \in Sessions :
        /\ Len(inbox[s]) > 0 /\ Head(inbox[s]) = "controller:type"
        /\ \E k \in DOMAIN inbox[s] : inbox[s][k] = "connection:open"
        /\ \E k \in DOMAIN inbox[s] : inbox[s][k] = "controller:settings"
        /\ \E k \in DOMAIN inbox[s] : inbox[s][k] = "sender:load"

\* The last handler was a client write of `?`.
ClientAsked == \E i \in Writes("client") : out[i].text = "?"

\* The last handler echoed a report to the subscribers.
Echoed == \E i \in Events("runner") : out[i].text = "connection:read"

\* A client write of `?` sets replyStatusReport; a status event is echoed
\* exactly when the flag is set, and leaves the flag clear.
EchoOnRequest ==
    /\ [][ ClientAsked' => actionMask'.replyStatusReport ]_vars
    /\ [][ RunOrIdle =>
             /\ actionMask.replyStatusReport <=> Echoed'
             /\ ~actionMask'.replyStatusReport ]_vars

\* C18 as stated: a client write of `?` sets replyStatusReport; the very
\* next status event, whatever happens before it, is echoed as
\* connection:read and clears the flag; a status event that finds the flag
\* clear is not echoed.
C18_EchoNextStatusAlways ==
    /\ EchoOnRequest
    /\ [][ actionMask.replyStatusReport /\ ~RunOrIdle
             => actionMask'.replyStatusReport ]_vars

\* C18: a client write of `?` sets replyStatusReport; the next status event
\* is echoed as connection:read and clears the flag, unless the firmware's
\* startup banner arrives before it (the banner clears the flag); a status
\* event that finds the flag clear is not echoed.
C18_EchoNextStatus ==
    /\ EchoOnRequest
    /\ [][ actionMask.replyStatusReport /\ ~RunOrIdle /\ ~Startup
             => actionMask'.replyStatusReport ]_vars

\* A status report has just been echoed to the subscribers while the
\* controller's own query was outstanding as well.
C18_Witness ==
    /\ Echoed
    /\ ~actionMask.replyStatusReport
    /\ actionTime.queryStatusReport > 0

\* What an error reply does to the Workflow, and what it does when the
\* Workflow is not Running.
ErrorEffect(ignoreErrors) ==
    IF workflow = WORKFLOW_STATE_RUNNING
    THEN /\ workflow' = (IF ignoreErrors THEN WORKFLOW_STATE_RUNNING
                         ELSE WORKFLOW_STATE_PAUSED)
         /\ ~ignoreErrors => sender'.hold /\ sender'.holdReason = "err"
         /\ sender'.sent >= sender.sent
    ELSE /\ workflow' = workflow
         /\ sender'.sent = sender.sent /\ sender'.received = sender.received
         /\ (feeder.queue # << >> /\ ~feeder.hold /\ runner.machineState # "Alarm")
                => /\ Len(feeder'.queue) = Len(feeder.queue) - 1
                   /\ Events("feeder")' # { }

C20_TransportErrorCloses ==
    [][ \A i \in InstIds :
          TransportErrorOf(i) =>
              /\ \A s \in instances[i].sockets :
                    \E k \in DOMAIN inbox'[s] : inbox'[s][k] = "connection:error"
              /\ instances'[i].life = "destroyed"
              /\ \A ident \in Idents : controllers'[ident] # i ]_vars

\* The session's request was answered with an error in the last handler.
GotCallbackError(s) == \E k \in DOMAIN inbox[s] : inbox[s][k] = "callback:error"

\* The registry and every controller's life, connection, Workflow, Sender
\* and Feeder are as they were.
ControllersUntouched ==
    /\ controllers' = controllers
    /\ \A i \in InstIds :
          /\ instances'[i].life = instances[i].life
          /\ instances'[i].ctl.conn = instances[i].ctl.conn
          /\ instances'[i].ctl.wf = instances[i].ctl.wf
          /\ instances'[i].ctl.s = instances[i].ctl.s
          /\ instances'[i].ctl.f = instances[i].ctl.f

\* C21: an `open` with an underivable ident or an unsupported controller
\* type and a `close` of an unknown ident are answered with an error through
\* the callback, a `command` with an unknown name is dropped, and each of
\* them leaves the registry and every controller's connection, Workflow,
\* Sender and Feeder unchanged.
C21_InvalidRequests ==
    [][ /\ \A s \in Sessions, controllerType \in RequestTypes, ident \in RequestIdents :
             ( /\ ident = NoIdent \/ controllerType \notin ControllerTypes
               /\ ident # "/dev/ttyS9"
               /\ OpenWith(s, controllerType, ident) )
             => GotCallbackError(s)' /\ ControllersUntouched
        /\ \A s \in Sessions, ident \in RequestIdents :
             ( /\ Lookup(Eng, ident) = NoController
               /\ CloseWith(s, ident) )
             => GotCallbackError(s)' /\ ControllersUntouched
        /\ \A s \in Sessions, ident \in Idents :
             CommandWith(s, ident, "homing:all") => ControllersUntouched ]_vars

----------------------------------------------------------------------------
(* Closing a controller *)

\* Instance i has been closed: its ident is not registered, it is not ready,
\* its timer is cleared and destroy() has run once.
Closed(i, ident) ==
    /\ controllers'[ident] = NoController
    /\ ~instances'[i].ctl.conn.ready
    /\ ~instances'[i].queryTimer
    /\ instances'[i].life = "destroyed"
    /\ instances'[i].destroys = 1

\* close() tells every connected session of the change.
Announced == \A s \in pool : inbox'[s] # << >>

Streaming(i) ==
    /\ IsOpen(i)
    /\ instances[i].ctl.wf = WORKFLOW_STATE_RUNNING
    /\ instances[i].ctl.s.sent > instances[i].ctl.s.received

\* C23: when the transport closes while a program is streaming, nothing
\* more is written, the Workflow becomes Idle and the Sender's sent and
\* received counters are what they were at the closure.
C23_ClosedWhileStreaming ==
    [][ \A i \in InstIds :
          ( /\ Streaming(i) /\ Announced
            /\ EDo(OnConnectionClose(Eng, i)) )
          => /\ instances'[i].ctl.wf = WORKFLOW_STATE_IDLE
             /\ instances'[i].ctl.wire = << >>
             /\ instances'[i].ctl.s.sent = instances[i].ctl.s.sent
             /\ instances'[i].ctl.s.received = instances[i].ctl.s.received ]_vars

----------------------------------------------------------------------------
(* Stopping with force *)

\* The last handler wrote the text to the transport.
Wrote(text) == \E k \in DOMAIN out : out[k].ev = "write" /\ out[k].text = text

\* C24: 'sender:stop' sets the Workflow to Idle; with force it writes `!`
\* iff the machine state is Run at that moment, and when the wait of 500 ms
\* is over it writes 0x18 iff the machine state is then Hold; without force
\* it writes neither byte.
C24_ForcedStop ==
    [][ /\ \A force \in BOOLEAN :
             ( /\ conn.isOpen /\ delayed < MaxDelayed
               /\ delayed' = delayed + (IF force THEN 1 ELSE 0)
               /\ Do(GrblSenderStopWith(Ctl, force)) )
             => /\ workflow' = WORKFLOW_STATE_IDLE
                /\ Wrote("!")' <=> (force /\ state.machineState = "Run")
                /\ ~Wrote("^X")'
        /\ ( /\ delayed > 0 /\ delayed' = delayed - 1
             /\ Do(GrblSenderStopDelayed(Ctl)) )
           => /\ Wrote("^X")' <=> state.machineState = "Hold"
              /\ ~Wrote("!")' ]_vars

\* A forced stop has held a running machine and, the wait over, has reset
\* the machine it found in Hold.
C24_Witness ==
    /\ Wrote("^X") /\ delayed = 0
    /\ workflow = WORKFLOW_STATE_IDLE
    /\ state.machineState = "Hold"
    /\ sender.lines # << >>

----------------------------------------------------------------------------
(* Overrides *)

OverrideMax == IF type = "Marlin" THEN MarlinOverrideMax ELSE SmoothieOverrideMax

\* What the claim says of a step from the percentage `previous` by `value`.
Clamped(previous, value, result) ==
    /\ result >= OverrideMin /\ result <= OverrideMax
    /\ value = 0 => result = OverrideReset
    /\ ( /\ value # 0
         /\ previous + value >= OverrideMin
         /\ previous + value <= OverrideMax ) => result = previous + value

\* The gcode command fed the line to the Feeder, which wrote it or kept it.
Fed(text) ==
    \/ Wrote(text)
    \/ feeder.queue # << >> /\ feeder.queue[Len(feeder.queue)] = text

FedFeed == Fed("M220S" \o ToString(runner.ovF))
FedSpindle == Fed("M221S" \o ToString(runner.ovS))

\* C25: after every override:feed and override:spindle command the override
\* percentage is within [10, 200] on Smoothie and [10, 500] on Marlin; it is
\* the previous percentage plus the delta whenever that sum is in the range,
\* and 100 after a delta of 0; that percentage is what M220 / M221 carries.
C25_OverrideClamped ==
    [][ \A value \in Deltas :
          /\ ( /\ conn.isOpen /\ runner'.ovS = runner.ovS
               /\ IF type = "Marlin" THEN Do(MarlinOverrideFeed(Ctl, value))
                  ELSE Do(SmoothieOverrideFeed(Ctl, value)) )
             => Clamped(runner.ovF, value, runner'.ovF) /\ FedFeed'
          /\ ( /\ conn.isOpen /\ runner'.ovF = runner.ovF
               /\ IF type = "Marlin" THEN Do(MarlinOverrideSpindle(Ctl, value))
                  ELSE Do(SmoothieOverrideSpindle(Ctl, value)) )
             => Clamped(runner.ovS, value, runner'.ovS) /\ FedSpindle' ]_vars

\* On Smoothie the feed override has been raised to its maximum and the
\* spindle override lowered to its minimum, through values in between.
C25_Witness ==
    /\ type = "Smoothie"
    /\ runner.ovF = SmoothieOverrideMax /\ runner.ovS = OverrideMin
    /\ Wrote("M221S10")

----------------------------------------------------------------------------
(* Marlin: from open to ready *)

\* The last handler wrote M115 as the server.
AskedFirmware ==
    \E k \in DOMAIN out :
        out[k].ev = "write" /\ out[k].src = "server" /\ out[k].text = "M115"

\* How often the last handler triggered controller:ready.
ReadyTriggers ==
    Cardinality({ k \in DOMAIN out :
                    out[k].src = "event" /\ out[k].text = "controller:ready" })

\* C26: on Marlin a successful open writes M115 and ready stays false until
\* a firmware event; a firmware event while not ready sets ready and
\* triggers controller:ready exactly once, a firmware event while ready
\* triggers nothing, and every start event causes another M115.
C26_MarlinReady ==
    /\ [][ (~conn.isOpen /\ conn'.isOpen) => AskedFirmware' /\ ~conn'.ready ]_vars
    /\ [][ (~conn.ready /\ conn'.ready) => MarlinFirmware ]_vars
    /\ [][ (wire # << >> /\ MarlinFirmware)
            => /\ conn'.ready
               /\ ReadyTriggers' = (IF conn.ready THEN 0 ELSE 1) ]_vars
    /\ [][ (conn.isOpen /\ MarlinStart) => AskedFirmware' ]_vars

\* The firmware has reported a second time, to a controller that is ready
\* and whose reaction to controller:ready was fed once.
C26_Witness ==
    /\ conn.ready /\ events # { }
    /\ ReadyTriggers = 0 /\ ~AskedFirmware
    /\ \E k \in DOMAIN out : out[k].src = "runner" /\ out[k].text = "connection:read"
    /\ wire # << >> /\ Head(wire).text = "M115" /\ Head(wire).ps
    /\ \E k \in DOMAIN wire : wire[k].src = "feeder"

----------------------------------------------------------------------------
(* Command 'gcode' *)

\* The texts the Feeder wrote in the last handler, in order.
FeederWrote ==
    LET ks == SelectSeq([ k \in 1..Len(out) |-> k ],
                        LAMBDA k : out[k].ev = "write" /\ out[k].src = "feeder")
    IN [ n \in 1..Len(ks) |-> out[ks[n]].text ]

\* The Feeder is not busy: nothing is queued, it is not held and no line is
\* waiting for a reply of the firmware.
FeederNotBusy == feeder.queue = << >> /\ ~feeder.hold /\ wire = << >>

\* C27: a gcode command appends all its non-blank lines to the Feeder in
\* order, and when the Feeder is not busy (nothing queued, not held, no line
\* awaiting a reply) the first of them is written within the command.
C27_GcodeKicks ==
    [][ \A commands \in RawCommands :
          GcodeStep(commands)
          => /\ FeederWrote' \o feeder'.queue = feeder.queue \o NonBlankLines(commands)
             /\ (FeederNotBusy /\ NonBlankLines(commands) # << >>)
                => FeederWrote' = << Head(NonBlankLines(commands)) >> ]_vars

----------------------------------------------------------------------------
(* Marlin: the echo of position reports *)

\* C28: on Marlin a position report is echoed to the subscribers as
\* connection:read when the most recent write came from a client or from
\* the Feeder, and is not echoed when it came from the server's own query
\* or from the Sender.
C28_PosEcho ==
    [][ (wire # << >> /\ MarlinPos)
        => (Echoed' <=> history.writeSource \in EchoedSources) ]_vars

----------------------------------------------------------------------------
(* MarlinRunner *)

RecognisedTypes == { "echo", "error", "firmware", "ok", "pos", "start", "temperature" }

----------------------------------------------------------------------------
(* Stopping with lines outstanding *)

\* The program lines the firmware holds and has not answered.
SenderPending == SelectSeq(wire, LAMBDA w : w.src = "sender")

\* C30: the ok replies of program lines that were unacknowledged at a
\* sender:stop are still credited to the Sender, so that when the program is
\* started again dataLength is the bytes of the program lines pending at
\* the firmware and no ok of the old run acknowledges a line of the new run.
C30_StopKeepsAcks ==
    /\ [][ ( /\ workflow = WORKFLOW_STATE_IDLE
              /\ wire # << >> /\ Head(wire).src = "sender"
              /\ FirmwareOk )
            => credit'.to = "sender" ]_vars
    /\ [](workflow = WORKFLOW_STATE_RUNNING
            => /\ sender.sp.dataLength = SumBytes(SenderPending)
               /\ sender.sent - sender.received = Len(SenderPending))

----------------------------------------------------------------------------
\* The effect of an ok on the Sender when it credits the oldest outstanding
\* line: received advances by one, the bytes of that line (its transmitted
\* text and the LF) leave dataLength, sent stays, and nothing of the program
\* is written or emitted.
PausedAckEffect ==
    /\ sender'.received = sender.received + 1
    /\ sender'.sent = sender.sent
    /\ sender'.sp.dataLength =
           sender.sp.dataLength
           - (Len(GrblFilterText(sender.lines[sender.received + 1])) + 1)
    /\ Writes("sender")' = { }
    /\ Events("sender")' = { }
    /\ workflow' = WORKFLOW_STATE_PAUSED

\* C31 as stated: while the Workflow is Paused, each ok received with
\* received < sent advances received by exactly one, removes that line from
\* the outstanding byte count and writes no program line.
C31_PausedAckAlways ==
    [][ ( /\ workflow = WORKFLOW_STATE_PAUSED
          /\ sender.received < sender.sent
          /\ FirmwareOk )
        => PausedAckEffect ]_vars

\* C31 (amended): while the Workflow is Paused, each ok received with
\* received < sent and no parser-state reply awaiting its ok
\* (actionMask.queryParserState.reply unset) advances received by exactly
\* one, removes that line from the outstanding byte count and writes no
\* program line; an ok that follows a parser-state report is consumed by
\* the mask and leaves the Sender as it is.
C31_PausedAck ==
    [][ ( /\ workflow = WORKFLOW_STATE_PAUSED
          /\ sender.received < sender.sent
          /\ FirmwareOk )
        => IF actionMask.queryParserState.reply
           THEN sender' = sender /\ Writes("sender")' = { }
           ELSE PausedAckEffect ]_vars

\* An ok has just been credited to the Sender while the Workflow is Paused.
C31_Witness ==
    /\ workflow = WORKFLOW_STATE_PAUSED
    /\ credit.to = "sender"
    /\ sender.hold
    /\ sender.received > 0
    /\ sender.received < sender.sent

----------------------------------------------------------------------------
\* The lines the Sender emitted in the last handler are counted from zero:
\* the k-th of them left the Sender with sent - received = k.
CountedFromZero ==
    /\ sender.received = 0
    /\ sender.sent = Cardinality(Events("sender"))
    /\ \A i \in Events("sender") :
           out[i].unacked = Cardinality({ j \in Events("sender") : j <= i })

\* C32: in every reachable state Workflow Paused implies that the Sender is
\* held; a step that stops the Workflow leaves sent = received = 0, and a
\* step that starts it has rewound the Sender to sent = received = 0 before
\* the first line of the run left the Sender.
C32_PausedHolds ==
    /\ [](workflow = WORKFLOW_STATE_PAUSED => sender.hold)
    /\ [][ (workflow # WORKFLOW_STATE_IDLE /\ workflow' = WORKFLOW_STATE_IDLE)
           => (sender'.sent = 0 /\ sender'.received = 0) ]_vars
    /\ [][ (workflow = WORKFLOW_STATE_IDLE /\ workflow' # WORKFLOW_STATE_IDLE)
           => CountedFromZero' ]_vars

\* The Workflow has been paused by an error reply, with a line outstanding.
C32_Witness ==
    /\ workflow = WORKFLOW_STATE_PAUSED
    /\ sender.hold
    /\ sender.holdReason = "err"
    /\ credit.to = "sender"
    /\ sender.received < sender.sent

----------------------------------------------------------------------------
\* C33: the controller writes its own parser-state query `$G` only while
\* the Workflow is Idle; while a program is Running or Paused no
\* controller-initiated `$G` line is written to the transport.
C33_ParserQueryOnlyIdle ==
    \A i \in Writes("server") :
        out[i].text = "$G" => out[i].wf = WORKFLOW_STATE_IDLE

----------------------------------------------------------------------------
\* The last handler wrote a status query of the controller's own.
TickQueried == \E i \in Writes("server") : out[i].text = "?"

\* A tick at which 5 s have passed since the last `?`.
TickTolerant ==
    \E tolP, throttled, zeroOffset \in BOOLEAN :
        Do(GrblQueryTimer(Ctl, TRUE, tolP, throttled, zeroOffset))

\* The tick writes `?` only when no earlier `?` is marked unanswered or the
\* tolerance has elapsed, and marks the one it writes; a status event clears
\* the mark, and a tick of a ready controller that finds no mark queries.
MaskedQuery ==
    /\ [][ TickQueried'
           => /\ actionMask'.queryStatusReport
              /\ ~actionMask.queryStatusReport \/ TickTolerant ]_vars
    /\ [][ RunOrIdle => ~actionMask'.queryStatusReport ]_vars
    /\ [][ (conn.ready /\ ~actionMask.queryStatusReport /\ Tick) => TickQueried' ]_vars

\* C34 as stated: the mark of an unanswered `?` is cleared by a status event
\* only (or overridden by the tolerance), so the tick never writes a second
\* `?` before a status event or the tolerance.
C34_StatusMaskAlways ==
    /\ MaskedQuery
    /\ [][ (actionMask.queryStatusReport /\ ~actionMask'.queryStatusReport)
           => RunOrIdle ]_vars

\* C34 (amended): the periodic tick never writes a second `?` while a
\* previous tick-issued `?` is unanswered unless the 5-second tolerance has
\* elapsed or the firmware has printed its startup banner since (the banner
\* clears the action values); a status event clears the mask so that the
\* next tick may query again.
C34_StatusMask ==
    /\ MaskedQuery
    /\ [][ (actionMask.queryStatusReport /\ ~actionMask'.queryStatusReport)
           => (RunOrIdle \/ Reboot) ]_vars

\* The tick has queried again after a status report had answered.
C34_Witness ==
    /\ TickQueried
    /\ actionMask.queryStatusReport
    /\ runner.machineState = "Run"

----------------------------------------------------------------------------
\* The lines the controller wrote that still await their ok: lines of the
\* Sender, lines of the Feeder and the server's queries.
AwaitingOk ==
    { i \in DOMAIN wire :
        \/ wire[i].src \in { "sender", "feeder" }
        \/ wire[i].src = "server" /\ wire[i].text \in { "M114", "M105" } }

\* C35: on Marlin at most one line written by the controller (a Sender line,
\* a Feeder line or a query M114/M105) awaits its ok at any time, and every
\* ok credited to the Sender answers a line the Sender wrote.
C35_MarlinOneCommand ==
    type = "Marlin"
    => /\ Cardinality(AwaitingOk) <= 1
       /\ credit.to = "sender" => credit.src = "sender"

----------------------------------------------------------------------------
\* C36: with the Workflow Idle and a firmware that answers every line, a
\* line waiting in the Feeder's queue is eventually written to the
\* transport, also when the queue holds a `$G` line.
C36_FeederDrains ==
    (feeder.queue # << >> /\ ~feeder.hold) ~> (Writes("feeder") # { })

----------------------------------------------------------------------------
\* C37: with ignoreErrors set and a firmware that answers every written
\* line with ok or error, a running program is eventually streamed to its
\* end: received = sent = lines.length.
C37_StreamsToEnd ==
    (workflow = WORKFLOW_STATE_RUNNING)
        ~> (/\ sender.received = Len(sender.lines)
            /\ sender.sent = Len(sender.lines))

----------------------------------------------------------------------------
\* C38: in every reachable state a controller whose ready flag is set has
\* its connection open and has not been destroyed; so after close() the
\* flag is not set again without a new successful open.
C38_ReadyMeansOpen ==
    \A i \in InstIds :
        instances[i].ctl.conn.ready
            => /\ instances[i].life = "alive"
               /\ instances[i].ctl.conn.isOpen

----------------------------------------------------------------------------
\* The open of instance i has failed: the constructor ran, connection.open()
\* has called back, and the connection is not open.
OpenFailed(i) ==
    /\ instances[i].life = "alive"
    /\ instances[i].opener = NoSession
    /\ ~instances[i].ctl.conn.isOpen

\* C39: when the transport open fails during an engine `open`, the newly
\* constructed controller is not left alive: it is absent from the
\* registry, holds no subscriber sockets, and its periodic timer is not
\* running.
C39_FailedOpenCleansUp ==
    \A i \in InstIds :
        OpenFailed(i)
            => /\ \A ident \in Idents : controllers[ident] # i
               /\ instances[i].sockets = { }
               /\ ~instances[i].queryTimer

----------------------------------------------------------------------------
\* C40: the Sender's bufferSize changes only at a status report, with the
\* Workflow Idle, no bytes outstanding (dataLength = 0) and a reported
\* rx - 8 larger than the current value, which it then takes; so it never
\* decreases and never changes while a program is Running or Paused.
C40_BufferSizeFrame ==
    /\ [][ sender'.sp.bufferSize # sender.sp.bufferSize
           => /\ workflow = WORKFLOW_STATE_IDLE
              /\ sender.sp.dataLength = 0
              /\ sender'.sp.bufferSize > sender.sp.bufferSize
              /\ \E rx \in RxValues : sender'.sp.bufferSize = rx - 8
              /\ Report ]_vars
    /\ [][ sender'.sp.bufferSize >= sender.sp.bufferSize ]_vars
    /\ [][ workflow # WORKFLOW_STATE_IDLE
           => sender'.sp.bufferSize = sender.sp.bufferSize ]_vars

\* A status report has raised bufferSize to 128 and a running program fills
\* it to the last byte.
C40_Witness ==
    /\ sender.sp.bufferSize = 136 - 8
    /\ workflow = WORKFLOW_STATE_RUNNING
    /\ sender.sp.dataLength = sender.sp.bufferSize

====
